---------------------------- MODULE Spec2Model ----------------------------
(***************************************************************************)
(* Decision and execution engine of the Uniswap V3 liquidity bot           *)
(* (uniswap_liquidity_bot): the retry loops that drive swaps and mints,    *)
(* the rebalance planner, the plan orchestrator with its history, and the  *)
(* threads that issue wallet transactions.                                 *)
(*                                                                         *)
(* Numbers.  Percentages that the code keeps as floats with integral       *)
(* values (4.0, 2.0, 1.0 ...) are integers here.  Token amounts are in the *)
(* token's smallest unit ("wei").  int(x) of a non-negative float is the   *)
(* integer quotient.                                                       *)
(***************************************************************************)
EXTENDS Integers, Sequences, FiniteSets, TLC

VARIABLES
    \* ---- one call of a retry loop (RetrySpec) ----
    rKind,        \* which loop runs: see RetryKinds
    rAmount0,     \* amount_wei of the swap / amount0 of the mint
    rAmount1,     \* amount1 of the mint (0 for a swap)
    rBalance,     \* wallet balance of token_in, in wei (rebalancer swap only)
    rApproveOk,   \* result of wallet.approve_token
    rPhase,       \* "ready" before the call, "returned" after it
    rLog,         \* the attempts the loop made, in order
    rResult       \* what the call returned: "none" | "true" | "false"

retryVars == <<rKind, rAmount0, rAmount1, rBalance, rApproveOk, rPhase, rLog, rResult>>

VARIABLES
    \* ---- one plan, built and executed (PlanSpec) ----
    pUrgency,     \* position_analysis["urgency"]
    pLiquidity,   \* position_info["liquidity"]
    pFee,         \* position_info["fee"], which is config.pool_fee
    pPhase,       \* "analysed" | "planned" | "executed"
    pLookup,      \* what the planner's lookups answered: [poolOk, price, widthLog]
    plan,         \* the list create_rebalance_plan returned
    execLog,      \* the actions execute_rebalance_plan executed, in order
    execResult    \* what execute_rebalance_plan returned: "none" | "true" | "false"

planVars == <<pUrgency, pLiquidity, pFee, pPhase, pLookup, plan, execLog, execResult>>

VARIABLES
    \* ---- the monitored position and the rebalance history (Spec) ----
    curTick,            \* the pool's current tick (slot0)
    posLower,           \* the monitored position's tick_lower
    posUpper,           \* the monitored position's tick_upper
    posLiquidity,       \* the monitored position's liquidity
    thresholdPct,       \* config.rebalance_threshold, in percent
    rebalance_history,  \* PositionRebalancer.rebalance_history
    histPlan,           \* for each history entry: what its plan was and what the call returned
    cycles              \* calls of monitor_and_rebalance_position so far

monitorVars == <<curTick, posLower, posUpper, posLiquidity, thresholdPct,
                 rebalance_history, histPlan, cycles>>

VARIABLES
    \* ---- the bot's threads and the wallet calls they issue (ThreadSpec) ----
    running,      \* UniswapLiquidityBot.running (PriceMonitor.monitoring goes with it)
    tPending,     \* per thread: the wallet calls its current handler has yet to issue
    tCall,        \* per thread: << >>, or <<c>> while it is inside wallet call c
    priceCached   \* PriceMonitor.price_cache holds an entry for the pool

threadVars == <<running, tPending, tCall, priceCached>>

VARIABLES
    \* ---- the main loop, step by step (LoopSpec) ----
    lRunning,     \* UniswapLiquidityBot.running
    lPc,          \* where the main loop thread is: "sleeping" | "position" |
                  \* "executing" | "ended" (its while loop is over) | "dead" (killed)
    lIndex,       \* index in active_positions of the position being processed
    lLiquidity,   \* liquidity of that position, as analysed
    lPlan,        \* the sorted plan being executed for it
    lStep,        \* index in lPlan of the current action
    lInStep,      \* the thread is inside _execute_single_action
    lReturn,      \* how the last monitor_and_rebalance_position call ended
    lCycles       \* passes of the while loop started so far

loopVars == <<lRunning, lPc, lIndex, lLiquidity, lPlan, lStep, lInStep, lReturn, lCycles>>

VARIABLES
    \* ---- a long run of monitor calls (HistorySpec) ----
    hPattern,     \* what the chain answers to the odd and to the even calls
    hCalls        \* one record per monitor_and_rebalance_position call so far

historyVars == <<hPattern, hCalls>>

VARIABLES
    \* ---- one call of a function: analyze_position_health (AnalysisSpec),
    \* calculate_tick_range (TickRangeSpec), calculate_dynamic_range
    \* (DynamicRangeSpec), auto_balance_portfolio (BalanceSpec), one plan action
    \* (ActionSpec), the swap attempts of one action (SettlementSpec) ----
    aIn,          \* what the call is given and reads; aIn.kind names the function
    aOut          \* what it returns, << >> before the call

analysisVars == <<aIn, aOut>>

VARIABLES
    \* ---- the pool price history and the threads that read the pool (PriceSpec) ----
    price_history,  \* UniswapV3Manager.price_history: the list the attribute refers to
    phReader,       \* per thread: where it is in get_pool_price, and its locals
    phAppended,     \* every point appended so far, in the order of the appends
    phReads         \* slot0 reads begun so far

priceVars == <<price_history, phReader, phAppended, phReads>>

VARIABLES
    \* ---- the wallet's nonce tracking and the threads that send (NonceSpec) ----
    last_nonce,     \* WalletManager.last_nonce: << >> for None, else <<n>>
    nPending,       \* the network's pending transaction count of the account
    nLatest,        \* the network's count of mined transactions of the account
    nThread,        \* per thread: where it is in sending a transaction, and its locals
    nSubmitted,     \* the nonces of the transactions the node took, in order
    nIssued,        \* what _get_next_nonce returned, in order: <<nonce, resets before>>
    nResets,        \* how often last_nonce was reset to None
    nCalls          \* _get_next_nonce calls begun so far

nonceVars == <<last_nonce, nPending, nLatest, nThread, nSubmitted, nIssued, nResets, nCalls>>

VARIABLES
    \* ---- the price monitor and the loops it has started (WatchSpec) ----
    monitoring,     \* PriceMonitor.monitoring
    monitor_thread, \* PriceMonitor.monitor_thread: 0 for None, else the loop's number
    mLoops,         \* every _monitor_loop thread started so far: where it is, whether
                    \* it was asked to stop, and whether it iterated again after that
    mCalls          \* start_monitoring and stop_monitoring calls made so far

watchVars == <<monitoring, monitor_thread, mLoops, mCalls>>

VARIABLES
    \* ---- the monitored positions and the threads that use them (PositionSpec) ----
    active_positions,   \* UniswapLiquidityBot.active_positions: the token ids, in list order
    monitored,          \* the keys of PositionRebalancer.active_positions
    position_metrics,   \* the keys of PositionRebalancer.position_metrics
    passList,           \* the list object the main loop's pass iterates over: its ids,
                        \* how many were visited, and whether the bot still refers to it
    lastCommand,        \* the last add or remove command, and the collections before it
    posCommands         \* commands given so far

positionVars == <<active_positions, monitored, position_metrics, passList, lastCommand, posCommands>>

vars == <<retryVars, planVars, monitorVars, threadVars, loopVars, historyVars, analysisVars,
          priceVars,
          nonceVars,
          watchVars,
          positionVars>>

-----------------------------------------------------------------------------
(* Bounds of the model *)

\* token amounts (wei) given to a retry-loop call: 0..MaxSmallAmount and the
\* multiples AmountScale * (1..MaxSmallAmount)
MaxSmallAmount == 4
AmountScale == 25

Amounts == (0..MaxSmallAmount) \cup {AmountScale * k : k \in 1..MaxSmallAmount}

\* decimals of the two tokens: balances are held in wei = 10^-TokenDecimals token
TokenDecimals == 2

\* swap_threshold = 0.01 (token), in wei
SwapThresholdWei == 10 ^ (TokenDecimals - 2)

\* log-prices are held in steps of 1 / LogResolution tick
LogResolution == 2

\* Calls of monitor_and_rebalance_position in one behaviour
MaxCycles == 2

\* Monitored positions, and passes of the main loop, in LoopSpec
NumPositions == 2

\* monitor_and_rebalance_position calls in a run of HistorySpec: more than the
\* history holds
MaxHistoryCalls == 55
MaxLoopCycles == 2

-----------------------------------------------------------------------------
(* Program constants *)

\* PositionRebalancer.MAX_RETRIES
MAX_RETRIES == 3
\* CeloTransactionFixer.CELO_MAX_RETRIES
CELO_MAX_RETRIES == 3
\* PositionRebalancer.CELO_SLIPPAGE = 4.0 (percent)
REBALANCER_CELO_SLIPPAGE == 4
\* "+2% per attempt" in _execute_celo_optimized_swap
REBALANCER_SLIPPAGE_STEP == 2
\* CeloTransactionFixer.CELO_SLIPPAGE = 2.0 (percent)
FIXER_CELO_SLIPPAGE == 2
\* "+1% per attempt" in _execute_swap_attempt / _execute_position_attempt
FIXER_SLIPPAGE_STEP == 1
\* swap_tokens: celo_slippage = 0.05 used when min_amount_out == 0, as a percentage
SWAP_DEFAULT_SLIPPAGE == 5
\* UniswapV3Manager.CELO_SLIPPAGE = 0.08, as a percentage
UNISWAP_CELO_SLIPPAGE == 8
\* calculate_tick_range / _validate_position_params: MIN_TICK, MAX_TICK
MIN_TICK == -887272
MAX_TICK == 887272
\* calculate_tick_range: min_tick_range = 30 for tick spacing 1
MIN_TICK_RANGE == 30
\* rebalance_history keeps the last 50 entries
HISTORY_CAP == 50
\* BotConfig.pool_fee
POOL_FEE == 3000

-----------------------------------------------------------------------------
(* The wallet boundary: one transaction attempt *)

\* What can happen to one submitted transaction: it is mined with status 1,
\* send_transaction raises (caught, returns None), the receipt has status 0,
\* or wait_for_transaction_receipt times out (caught, returns False).
TxOutcomes == {"ok", "submit_error", "revert", "timeout"}

\* tx_hash and self.wallet.wait_for_transaction(tx_hash, ...)
TxSucceeds(o) == o = "ok"

-----------------------------------------------------------------------------
(* The retry loops *)

RetryKinds == {"rebalancer_swap", "fixer_swap", "fixer_mint"}

MaxRetriesOffByOne(kind) == 2

\* range(self.MAX_RETRIES) / range(self.CELO_MAX_RETRIES)
MaxRetries(kind) ==
    IF kind = "rebalancer_swap" THEN MAX_RETRIES ELSE CELO_MAX_RETRIES

AttemptSlippageFlat(kind, attempt) ==
    IF kind = "rebalancer_swap" THEN REBALANCER_CELO_SLIPPAGE ELSE FIXER_CELO_SLIPPAGE

\* attempt_slippage = self.CELO_SLIPPAGE + (attempt * step)
AttemptSlippage(kind, attempt) ==
    IF kind = "rebalancer_swap"
    THEN REBALANCER_CELO_SLIPPAGE + attempt * REBALANCER_SLIPPAGE_STEP
    ELSE FIXER_CELO_SLIPPAGE + attempt * FIXER_SLIPPAGE_STEP

\* int(amount * (100 - slippage_percent) / 100); the mint keeps 0 for a zero amount
MinAmountOut(amount, slippage) ==
    IF amount > 0 THEN (amount * (100 - slippage)) \div 100 ELSE 0

\* UniswapV3Manager._validate_swap_params: amount_in <= 0 is refused before
\* any transaction is built (the token and fee checks pass for the configured pair)
ValidateSwapParams(amountIn) == amountIn > 0

\* UniswapV3Manager.swap_tokens: a zero min_amount_out is replaced by
\* int(amount_in * (1 - 0.05)) before the transaction is built
SentMinAmountOut(kind, amountIn, minOut) ==
    IF kind = "rebalancer_swap" /\ minOut = 0
    THEN (amountIn * (100 - SWAP_DEFAULT_SLIPPAGE)) \div 100
    ELSE minOut

\* Whether the attempt reaches send_transaction at all
AttemptSubmits(kind, amount0) ==
    kind = "rebalancer_swap" => ValidateSwapParams(amount0)

\* One attempt of a loop: the slippage it runs with, the minimum amounts it puts
\* into the transaction, whether a transaction was submitted, and whether the
\* attempt succeeded.
AttemptRecord(kind, amount0, amount1, attempt, outcome) ==
    LET s    == AttemptSlippage(kind, attempt)
        sent == AttemptSubmits(kind, amount0)
    IN  [attempt   |-> attempt,
         slippage  |-> s,
         minOut0   |-> SentMinAmountOut(kind, amount0, MinAmountOut(amount0, s)),
         minOut1   |-> IF kind = "fixer_mint" THEN MinAmountOut(amount1, s) ELSE 0,
         submitted |-> sent,
         ok        |-> sent /\ TxSucceeds(outcome)]

StopsOnSuccessNever(entry) == FALSE

\* "if success: return True" / "if tx_hash: return tx_hash"
StopsOnSuccess(entry) == entry.ok

\* for attempt in range(MAX_RETRIES): ... (the sleeps between attempts change no state)
\* outs[i + 1] is what happens to the transaction of attempt i, if it is submitted.
RECURSIVE RetryLoop(_, _, _, _, _)
RetryLoop(kind, amount0, amount1, outs, attempt) ==
    IF attempt >= MaxRetries(kind) THEN << >>
    ELSE LET e == AttemptRecord(kind, amount0, amount1, attempt, outs[attempt + 1])
         IN  IF StopsOnSuccess(e) THEN <<e>>
             ELSE <<e>> \o RetryLoop(kind, amount0, amount1, outs, attempt + 1)

\* The value the loop's caller gets: True from the successful attempt, False
\* ("All N attempts failed") otherwise.
LoopResult(log) == Len(log) > 0 /\ log[Len(log)].ok

\* The checks made before the loop is entered:
\*   _execute_celo_optimized_swap: current_balance < amount -> False;
\*                                 approval failed -> False
\*   execute_safe_swap / execute_safe_position_creation: approval failed -> False/None
PreflightPasses(kind, amount0, balance, approveOk) ==
    /\ kind = "rebalancer_swap" => ~(balance < amount0)
    /\ approveOk

\* _execute_celo_optimized_swap / execute_safe_swap / execute_safe_position_creation
\* as a whole: the attempts made and the value returned.  Every exception is
\* caught inside and turned into False / None.
ExecuteWithRetry(kind, amount0, amount1, balance, approveOk, outs) ==
    IF ~PreflightPasses(kind, amount0, balance, approveOk)
    THEN [log |-> << >>, ok |-> FALSE]
    ELSE LET log == RetryLoop(kind, amount0, amount1, outs, 0)
         IN  [log |-> log, ok |-> LoopResult(log)]

\* Outcomes for as many transactions as a loop can submit
OutcomeSeqs == [1..3 -> TxOutcomes]

-----------------------------------------------------------------------------
(* Wallet calls made by one plan action *)

\* One blockchain-mutating call and how it ended.  slippage is the tolerance
\* (percent) the call was built with, 0 where none applies.
Call(kind, ok, slippage) == [kind |-> kind, ok |-> ok, slippage |-> slippage]

\* What an operation did: the value it returned, the mutating calls it issued
\* in order, and the number of attempts its main call was given.
Run(ok, calls, attempts) == [ok |-> ok, calls |-> calls, attempts |-> attempts]

\* An allowance that covers every amount of the model (approve(2**256 - 1) before)
UnlimitedAllowance == 2 ^ 20

Allowances == {0, UnlimitedAllowance}

\* WalletManager.approve_token: no transaction when the allowance suffices,
\* else one approve transaction, confirmed (status 1) or not.
ApproveToken(allowance, amount, txOk) ==
    IF allowance >= amount
    THEN Run(TRUE, << >>, 0)
    ELSE Run(txOk, <<Call("approve", txOk, 0)>>, 1)

\* The swap transactions a retry log stands for (attempts refused by
\* _validate_swap_params submit nothing)
RECURSIVE SwapCalls(_)
SwapCalls(log) ==
    IF log = << >> THEN << >>
    ELSE (IF Head(log).submitted
          THEN <<Call("swap", Head(log).ok, Head(log).slippage)>>
          ELSE << >>) \o SwapCalls(Tail(log))

\* PositionRebalancer._execute_celo_optimized_swap(token_in, token_out, amount):
\*   amountNum / amountDen is amount * 10**decimals, the exact swap amount in wei;
\*   balance is wallet.get_balance(token_in) in wei (0 when the read fails)
ExecuteCeloOptimizedSwap(amountNum, amountDen, balance, allowance, approveTxOk, outs) ==
    LET amountWei == amountNum \div amountDen       \* int(amount * 10**decimals)
    IN  IF balance * amountDen < amountNum          \* current_balance < amount
        THEN Run(FALSE, << >>, 0)
        ELSE LET ap == ApproveToken(allowance, amountWei * 2, approveTxOk)
             IN  IF ~ap.ok
                 THEN Run(FALSE, ap.calls, 0)
                 ELSE LET log == RetryLoop("rebalancer_swap", amountWei, 0, outs, 0)
                      IN  Run(LoopResult(log), ap.calls \o SwapCalls(log), Len(log))

\* config.min_gas_balance (default 0.01), in thousandths of the native token
MIN_GAS_BALANCE == 10

GasOkAlways(gas_balance) == TRUE

\* the gas check of an action: "if gas_balance < self.config.min_gas_balance:
\* return False"; gas_balance is wallet.get_balance() (0 when the read fails)
GasOk(gas_balance) == ~(gas_balance < MIN_GAS_BALANCE)

\* _execute_single_action, action_type == "swap_tokens": the gas check, then
\* _execute_celo_optimized_swap(token_in, token_out, amount)
SwapTokens(gas_balance, amountNum, amountDen, balance, allowance, approveTxOk, outs) ==
    IF ~GasOk(gas_balance) THEN Run(FALSE, << >>, 0)
    ELSE ExecuteCeloOptimizedSwap(amountNum, amountDen, balance, allowance, approveTxOk, outs)

SwapAmountTwice(diffNum, diffDen) == <<20 * diffNum, 10 * diffDen>>

SwapAmountWhole(diffNum, diffDen) == <<10 * diffNum, 10 * diffDen>>

\* "swap_amount = abs(token1_diff) * 0.80" / "abs(token0_diff) * 0.80", as a
\* fraction; the difference is diffNum / diffDen >= 0
SwapAmount(diffNum, diffDen) == <<8 * diffNum, 10 * diffDen>>

\* auto_balance_portfolio, from the target amounts to the swap it asks for:
\* << >> when the portfolio counts as balanced, else the token sold, the token
\* bought and the amount in wei (a fraction).
\* With total = b1 + b0 * price:  token0_diff = n0 / (100 * pn),
\* token1_diff = - n0 / (100 * pd)  (in wei), which the code computes in floats.
BalanceSwap(tr, b0, b1, pn, pd) ==
    LET n0    == (b1 * pd + b0 * pn) * (100 - tr) - 100 * b0 * pn
        absN0 == IF n0 >= 0 THEN n0 ELSE -n0
        thr   == SwapThresholdWei
    IN  IF absN0 < 100 * pn * thr /\ absN0 < 100 * pd * thr
        THEN << >>
        ELSE IF n0 > 0
        THEN \* need more token0: swap token1 -> token0, from abs(token1_diff)
             [token_in |-> "token1", token_out |-> "token0", amount |-> SwapAmount(absN0, 100 * pd)]
        ELSE \* need more token1: swap token0 -> token1, from abs(token0_diff)
             [token_in |-> "token0", token_out |-> "token1", amount |-> SwapAmount(absN0, 100 * pn)]

\* PositionRebalancer.auto_balance_portfolio(target_ratio), target_ratio = tr / 100.
\*   gasOk    gas_balance >= config.min_gas_balance
\*   poolOk   get_pool_address found the pool;  priceOk  get_current_price answered
\*   b0, b1   token balances in wei;  pn / pd  the pool price (token1 per token0)
\*   readOk   the balance read inside the swap answered (get_balance gives 0.0 on error)
AutoBalancePortfolio(tr, gasOk, poolOk, priceOk, b0, b1, pn, pd, readOk, allowance, approveTxOk, outs) ==
    LET swap == BalanceSwap(tr, b0, b1, pn, pd)
    IN  IF ~gasOk THEN Run(FALSE, << >>, 0)
        ELSE IF ~poolOk THEN Run(FALSE, << >>, 0)
        ELSE IF ~priceOk THEN Run(FALSE, << >>, 0)
        ELSE IF b1 * pd + b0 * pn = 0 THEN Run(FALSE, << >>, 0)  \* total_value_token1 == 0
        ELSE IF swap = << >>
             THEN Run(TRUE, << >>, 0)                            \* already balanced
        ELSE ExecuteCeloOptimizedSwap(swap.amount[1], swap.amount[2],
                 IF ~readOk THEN 0 ELSE IF swap.token_in = "token0" THEN b0 ELSE b1,
                 allowance, approveTxOk, outs)

\* UniswapV3Manager.remove_position(token_id) with _collect_position_fees:
\* one decreaseLiquidity transaction, a single attempt; collect follows a
\* confirmed removal and its result is ignored.
RemovePosition(infoOk, liquidity, txOk, collectOk) ==
    IF ~infoOk THEN Run(FALSE, << >>, 0)
    ELSE IF liquidity = 0 THEN Run(TRUE, << >>, 0)
    ELSE IF ~txOk THEN Run(FALSE, <<Call("decreaseLiquidity", FALSE, 0)>>, 1)
    ELSE Run(TRUE, <<Call("decreaseLiquidity", TRUE, 0), Call("collect", collectOk, 0)>>, 1)

-----------------------------------------------------------------------------
(* Tick ranges *)

\* int(x / y) for y > 0: the quotient truncated towards zero
TruncDiv(x, y) == IF x >= 0 THEN x \div y ELSE -((-x) \div y)

\* The tick of price 1.0, whatever the price
PriceToTickOfOne(priceLog) == 0

\* int(math.log(price) / math.log(1.0001)), the price given by
\* priceLog = LogResolution * log(price) / log(1.0001)
PriceToTick(priceLog) == TruncDiv(priceLog, LogResolution)

\* UniswapV3Manager.get_tick_spacing_for_fee
TickSpacingForFee(fee) ==
    CASE fee = 100   -> 1
      [] fee = 500   -> 10
      [] fee = 3000  -> 60
      [] fee = 10000 -> 200
      [] OTHER       -> 1

TooNarrowNever(spacing, width) == FALSE

\* "if upper_tick - lower_tick < min_tick_range" for tick_spacing 1,
\* "if upper_tick - lower_tick < 2 * tick_spacing" for the others
TooNarrow(spacing, width) == IF spacing = 1 THEN width < MIN_TICK_RANGE ELSE width < 2 * spacing

\* UniswapV3Manager.calculate_tick_range(current_price, range_percent, tick_spacing):
\* << >> for (None, None), else <<lower_tick, upper_tick>>.
\*   priceLog  as in PriceToTick (a valid price: > 0 and finite)
\*   widthLog  LogResolution * log(1 + range_percent / 100) / log(1.0001),
\*             which is > 0 exactly when range_percent > 0
CalculateTickRange(priceLog, widthLog, spacing) ==
    IF widthLog <= 0 THEN << >>
    ELSE
    LET cur == PriceToTick(priceLog)
        up0 == TruncDiv(priceLog + widthLog, LogResolution)
        lo0 == TruncDiv(priceLog - widthLog, LogResolution)
        up1 == ((up0 \div spacing) + 1) * spacing
        lo1 == (lo0 \div spacing) * spacing
        rounded == (cur \div spacing) * spacing
        narrow1 == spacing = 1 /\ TooNarrow(spacing, up1 - lo1)
        narrowN == spacing # 1 /\ TooNarrow(spacing, up1 - lo1)
        up  == IF narrow1
               THEN (((rounded + (MIN_TICK_RANGE \div 2)) \div spacing) + 1) * spacing
               ELSE IF narrowN THEN rounded + spacing ELSE up1
        lo  == IF narrow1
               THEN ((rounded - (MIN_TICK_RANGE \div 2)) \div spacing) * spacing
               ELSE IF narrowN THEN rounded - spacing ELSE lo1
    IN  IF lo < MIN_TICK \/ up > MAX_TICK THEN << >> ELSE <<lo, up>>

-----------------------------------------------------------------------------
(* Range widths.  Percentages are in hundredths of a percent. *)

Min(a, b) == IF a <= b THEN a ELSE b

Max(a, b) == IF a >= b THEN a ELSE b

\* ConfigManager._validate_range_settings, the range part: "ensure min <
\* default < max"
ValidateRangeSettings(config) ==
    LET base == config.price_range_percent
    IN  [config EXCEPT
            !.min_price_range_percent = IF @ >= base THEN base \div 2 ELSE @,
            !.max_price_range_percent = IF @ <= base THEN base * 3 ELSE @]

ApplyConstraintsNone(config, range) == range

\* "adjusted_range = max(config.min_price_range_percent, adjusted_range);
\*  adjusted_range = min(config.max_price_range_percent, adjusted_range)"
ApplyConstraints(config, range) == Min(config.max_price_range_percent, Max(config.min_price_range_percent, range))

\* UniswapV3Manager.calculate_dynamic_range(current_price, config).
\*   priceValid  current_price > 0 and finite
\*   volatility  what calculate_price_volatility answers
\*   recent      <<((price_max - price_min) / current_price) * 100>> over the
\*               last 5 prices, << >> with fewer than 5 prices or price_min <= 0
CalculateDynamicRange(priceValid, config, volatility, recent) ==
    LET base_range == config.price_range_percent
        term       == volatility * config.volatility_multiplier
    IN  IF ~priceValid THEN base_range
        ELSE IF ~config.dynamic_range THEN base_range
        ELSE IF config.range_calculation_method = "fixed" THEN base_range
        ELSE IF config.range_calculation_method = "volatility_based"
        THEN ApplyConstraints(config,
                 IF volatility > 0 THEN base_range + Min(term, 500) ELSE base_range)
        ELSE IF config.range_calculation_method = "adaptive"
        THEN LET adaptive == IF recent # << >>
                             THEN Max(base_range, recent[1] + config.range_buffer_percent)
                             ELSE base_range
             IN  ApplyConstraints(config,
                     IF volatility > 0 THEN adaptive + term ELSE adaptive)
        ELSE base_range

-----------------------------------------------------------------------------
(* Creating a position *)

\* UniswapV3Manager._validate_position_params
ValidatePositionParams(fee, amount0, amount1, lower, upper) ==
    /\ fee \in {100, 500, 3000, 10000}
    /\ amount0 >= 0 /\ amount1 >= 0
    /\ ~(amount0 = 0 /\ amount1 = 0)
    /\ lower < upper
    /\ ~(lower < MIN_TICK \/ upper > MAX_TICK)
    /\ lower % TickSpacingForFee(fee) = 0
    /\ upper % TickSpacingForFee(fee) = 0

\* UniswapV3Manager.create_position: one mint transaction, a single attempt,
\* built with the fixed CELO_SLIPPAGE = 0.08
CreatePosition(fee, amount0, amount1, lower, upper, txOk) ==
    IF ~ValidatePositionParams(fee, amount0, amount1, lower, upper)
    THEN Run(FALSE, << >>, 0)
    ELSE Run(txOk, <<Call("mint", txOk, UNISWAP_CELO_SLIPPAGE)>>, 1)

\* PositionRebalancer._create_celo_optimized_position(tick_range):
\*   fee is config.pool_fee; b0, b1 the token balances in wei;
\*   allowance0/1 the position manager's allowances
CreateCeloOptimizedPosition(range, fee, gasOk, b0, b1, allowance0, allowance1, approveTxOk, txOk) ==
    LET amount0 == (b0 * 8) \div 10      \* int(token0_balance * 0.80 * 10**decimals)
        amount1 == (b1 * 8) \div 10
        ap0 == IF amount0 > 0 THEN ApproveToken(allowance0, amount0 * 2, approveTxOk)
               ELSE Run(TRUE, << >>, 0)
        ap1 == IF amount1 > 0 THEN ApproveToken(allowance1, amount1 * 2, approveTxOk)
               ELSE Run(TRUE, << >>, 0)
    IN  IF ~gasOk THEN Run(FALSE, << >>, 0)
        ELSE IF b0 = 0 /\ b1 = 0 THEN Run(FALSE, << >>, 0)
        ELSE IF ~ap0.ok THEN Run(FALSE, ap0.calls, 0)
        ELSE IF ~ap1.ok THEN Run(FALSE, ap0.calls \o ap1.calls, 0)
        ELSE LET m == CreatePosition(fee, amount0, amount1, range[1], range[2], txOk)
             IN  Run(m.ok, ap0.calls \o ap1.calls \o m.calls, m.attempts)

-----------------------------------------------------------------------------
(* The rebalance planner *)

\* RebalanceAction(action_type, new_range, priority); new_range is << >> for None
Action(type, priority, range) == [type |-> type, priority |-> priority, new_range |-> range]

PriorityAlwaysHigh(urgency) == 1

\* priority = 1 if urgency == "HIGH" else 2 if urgency == "MEDIUM" else 3
Priority(urgency) ==
    IF urgency = "HIGH" THEN 1 ELSE IF urgency = "MEDIUM" THEN 2 ELSE 3

PlanOnFailureEmpty(actions) == << >>

\* "return actions" where a lookup of steps 3-4 failed
PlanOnFailure(actions) == actions

\* PositionRebalancer.create_rebalance_plan(position_analysis)
\*   liquidity, fee   position_info["liquidity"], position_info["fee"]
\*   poolOk           get_pool_address found the pool
\*   price            << >> when get_current_price gave None, else <<priceLog>>
\*   widthLog         calculate_dynamic_range's answer, as in CalculateTickRange
CreateRebalancePlan(urgency, liquidity, fee, poolOk, price, widthLog) ==
    LET priority == Priority(urgency)
        close    == IF liquidity > 0
                    THEN <<Action("close_position", priority, << >>)>>
                    ELSE << >>
        actions  == close \o <<Action("auto_balance", priority, << >>)>>
    IN  IF ~poolOk THEN PlanOnFailure(actions)
        ELSE IF price = << >> THEN PlanOnFailure(actions)
        ELSE LET range == CalculateTickRange(price[1], widthLog, TickSpacingForFee(fee))
             IN  IF range = << >> THEN PlanOnFailure(actions)
                 ELSE actions \o <<Action("create_position", priority, range)>>

-----------------------------------------------------------------------------
(* The plan orchestrator *)

\* Token balances and pool prices the wallet and the pool can answer with
Balances == {0, 1, AmountScale * MaxSmallAmount}
BalancePrices == {<<1, 1>>, <<2, 1>>, <<1, 2>>}

\* Everything remove_position can do on a position with this liquidity
RemoveRuns(liquidity) ==
    {RemovePosition(infoOk, liquidity, txOk, collectOk) :
        infoOk \in BOOLEAN, txOk \in BOOLEAN, collectOk \in BOOLEAN}

\* Everything auto_balance_portfolio(target_ratio=0.5) can do
BalanceRuns ==
    {AutoBalancePortfolio(50, env[1], env[2], env[3], b[1], b[2], p[1], p[2],
                          env[4], al, env[5], outs) :
        env \in [1..5 -> BOOLEAN], b \in Balances \X Balances, p \in BalancePrices,
        al \in Allowances, outs \in OutcomeSeqs}

\* Everything _create_celo_optimized_position(range) can do
CreateRuns(range, fee) ==
    {CreateCeloOptimizedPosition(range, fee, env[1], b[1], b[2], al[1], al[2],
                                 env[2], env[3]) :
        env \in [1..3 -> BOOLEAN], b \in Balances \X Balances,
        al \in Allowances \X Allowances}

\* PositionRebalancer._execute_single_action(action): the dispatch on
\* action_type.  liquidity is the position's liquidity on chain, fee is
\* config.pool_fee.  (No plan of the program holds a "swap_tokens" action.)
SingleActionRuns(action, liquidity, fee) ==
    CASE action.type = "close_position"  -> RemoveRuns(liquidity)
      [] action.type = "auto_balance"    -> BalanceRuns
      [] action.type = "create_position" -> CreateRuns(action.new_range, fee)
      [] OTHER                           -> {Run(FALSE, << >>, 0)}

SortReversing(actions) == [k \in 1..Len(actions) |-> actions[Len(actions) + 1 - k]]

\* actions.sort(key=lambda x: x.priority): a stable sort
SortByPriority(actions) ==
    LET P1(a) == a.priority = 1
        P2(a) == a.priority = 2
        P3(a) == a.priority >= 3
    IN  SelectSeq(actions, P1) \o SelectSeq(actions, P2) \o SelectSeq(actions, P3)

AbortsOnFailureAlways(action) == TRUE

AbortsOnFailureNever(action) == FALSE

\* "if action.priority == 1: return False" after a failed action
AbortsOnFailure(action) == action.priority = 1

\* What execute_rebalance_plan notes for one executed action
Executed(action, run) ==
    [type |-> action.type, priority |-> action.priority,
     ok |-> run.ok, calls |-> run.calls, attempts |-> run.attempts]

\* The loop of execute_rebalance_plan from action i on; runs[i] is what
\* _execute_single_action does for action i.  (The 20 s sleep between actions
\* changes no state.)
RECURSIVE ExecuteActions(_, _, _)
ExecuteActions(actions, runs, i) ==
    IF i > Len(actions) THEN [log |-> << >>, ok |-> TRUE]
    ELSE LET e == Executed(actions[i], runs[i])
         IN  IF ~e.ok /\ AbortsOnFailure(actions[i])
             THEN [log |-> <<e>>, ok |-> FALSE]
             ELSE LET rest == ExecuteActions(actions, runs, i + 1)
                  IN  [log |-> <<e>> \o rest.log, ok |-> rest.ok]

\* What the actions of a plan can do from action i on, one run for each
RECURSIVE PlanRuns(_, _, _, _)
PlanRuns(actions, liquidity, fee, i) ==
    IF i > Len(actions) THEN {<< >>}
    ELSE {<<r>> \o rest :
            r \in SingleActionRuns(actions[i], liquidity, fee),
            rest \in PlanRuns(actions, liquidity, fee, i + 1)}

\* PositionRebalancer.execute_rebalance_plan(actions): the sort, then the loop;
\* runs[i] belongs to the i-th action of the sorted plan
ExecuteRebalancePlan(actions, runs) == ExecuteActions(SortByPriority(actions), runs, 1)

-----------------------------------------------------------------------------
(* Position health analysis *)

\* Fractions are pairs <<numerator, denominator>> with a positive denominator
FracLess(a, b) == a[1] * b[2] < b[1] * a[2]

\* dict.get(key, default)
Get(dict, key, default) == IF key \in DOMAIN dict THEN dict[key] ELSE default

InRangeAlways(tick, lower, upper) == TRUE

\* "in_range = tick_lower <= current_tick <= tick_upper"
InRange(tick, lower, upper) == lower <= tick /\ tick <= upper

\* UniswapV3Manager.is_position_in_range, the fields that are read later.
\* position_ratio is ratioNum / ratioDen (0.0 when the range is empty),
\* range_utilization is 1 - 2 * position_ratio in range and 0.0 out of it;
\* volatility, in tenths of a percent, is the pool's.
IsPositionInRange(tick, lower, upper, volatility) ==
    LET total    == upper - lower
        in_range == InRange(tick, lower, upper)
        ratioNum == IF total > 0 THEN Min(tick - lower, upper - tick) ELSE 0
        ratioDen == IF total > 0 THEN total ELSE 1
    IN  [in_range          |-> in_range,
         ratioNum          |-> ratioNum,
         ratioDen          |-> ratioDen,
         range_utilization |-> IF total > 0 /\ in_range
                               THEN <<ratioDen - 2 * ratioNum, ratioDen>>
                               ELSE <<0, 1>>,
         volatility        |-> volatility]

\* "abs(current_tick - range_center_tick) / (total_range / 2)", the centre
\* being (tick_lower + tick_upper) / 2; 0.0 when the range is empty
TickDeviation(tick, lower, upper) ==
    IF upper - lower > 0
    THEN <<IF 2 * tick >= lower + upper THEN 2 * tick - lower - upper
           ELSE lower + upper - 2 * tick, upper - lower>>
    ELSE <<0, 1>>

\* PriceMonitor.check_position_range_status: in_range and position_ratio are
\* copied to the top of the answer, the rest stays inside "range_info"
CheckPositionRangeStatus(range_info) ==
    [in_range   |-> range_info.in_range,
     ratioNum   |-> range_info.ratioNum,
     ratioDen   |-> range_info.ratioDen,
     range_info |-> range_info]

RatioBelowTenth(rs, pct) == 100 * rs.ratioNum < 10 * rs.ratioDen

\* range_status["position_ratio"] < self.rebalance_threshold, the threshold
\* being config.rebalance_threshold / 100
RatioBelowThreshold(rs, pct) == 100 * rs.ratioNum < pct * rs.ratioDen

NoClamp(num, den) == <<num, den>>

\* "max(0.0, min(100.0, final_score))"
Clamp(num, den) == IF num < 0 THEN <<0, 1>> ELSE IF num > 100 * den THEN <<100, 1>> ELSE <<num, den>>

\* PositionRebalancer._calculate_enhanced_health_score, as a fraction:
\* position_ratio * 100 + range_utilization * 20 - volatility_penalty, with
\* range_utilization 0.5 and volatility 0.0 when range_status has no such key.
\* Volatilities and the penalty are in tenths.
CalculateEnhancedHealthScore(range_status, liquidity) ==
    IF ~range_status.in_range THEN <<0, 1>>
    ELSE IF liquidity = 0 THEN <<0, 1>>
    ELSE LET u          == Get(range_status, "range_utilization", <<1, 2>>)
             volatility == Get(range_status, "volatility", 0)
             penalty    == IF volatility > 30 THEN Min(volatility - 30, 100) ELSE 0
             den        == 10 * range_status.ratioDen * u[2]
             num        == 1000 * range_status.ratioNum * u[2]
                             + 200 * u[1] * range_status.ratioDen
                             - penalty * range_status.ratioDen * u[2]
         IN  Clamp(num, den)

\* PositionRebalancer.analyze_position_health(token_id).
\*   readOk  the chain reads of is_position_in_range and get_position_info
\*           answered; otherwise the analysis is None (ok = FALSE).
\* The branches are tested in the order of the code.  The reason of a position
\* close to the edge carries the ratio it was built from.
AnalyzePositionHealth(readOk, tick, lower, upper, liquidity, pct, volatility) ==
    LET range_status == CheckPositionRangeStatus(IsPositionInRange(tick, lower, upper, volatility))
        ratio == <<range_status.ratioNum, range_status.ratioDen>>
        verdict ==
            IF ~range_status.in_range
            THEN <<TRUE, "Position completely out of range", "HIGH", << >>>>
            ELSE IF RatioBelowThreshold(range_status, pct)
            THEN <<TRUE, "Position too close to edge", "MEDIUM", ratio>>
            ELSE IF liquidity = 0
            THEN <<TRUE, "Position has zero liquidity", "HIGH", << >>>>
            ELSE IF FracLess(Get(range_status, "range_utilization", <<1, 1>>), <<3, 10>>)
            THEN <<TRUE, "Range too wide, low fee efficiency", "LOW", << >>>>
            ELSE IF Get(range_status, "volatility", 0) > 50 /\ FracLess(ratio, <<3, 10>>)
            THEN <<TRUE, "High volatility detected, preemptive rebalancing", "MEDIUM", << >>>>
            ELSE <<FALSE, "", "LOW", << >>>>
    IN  [ok              |-> readOk,
         needs_rebalance |-> verdict[1],
         reason          |-> [text |-> verdict[2], ratio |-> verdict[4]],
         urgency         |-> verdict[3],
         range_status    |-> range_status,
         liquidity       |-> liquidity,
         health_score    |-> CalculateEnhancedHealthScore(range_status, liquidity)]

\* One run of the action for each answer _execute_single_action can give
AnswerRuns(action, liquidity, fee) ==
    LET runs == SingleActionRuns(action, liquidity, fee)
    IN  {CHOOSE r \in runs : r.ok = ok : ok \in {r.ok : r \in runs}}

\* One run for each combination of answers of the actions from action i on
RECURSIVE PlanAnswerRuns(_, _, _, _)
PlanAnswerRuns(actions, liquidity, fee, i) ==
    IF i > Len(actions) THEN {<< >>}
    ELSE {<<r>> \o rest :
            r \in AnswerRuns(actions[i], liquidity, fee),
            rest \in PlanAnswerRuns(actions, liquidity, fee, i + 1)}

\* The entry monitor_and_rebalance_position appends to rebalance_history
HistoryEntry(now, analysis, success, count) ==
    [timestamp           |-> now,
     token_id            |-> 1,
     reason              |-> analysis.reason,
     urgency             |-> analysis.urgency,
     health_score_before |-> analysis.health_score,
     success             |-> success,
     actions_count       |-> count]

KeepOldest(history) == IF Len(history) > HISTORY_CAP THEN SubSeq(history, 1, HISTORY_CAP) ELSE history

\* "if len(self.rebalance_history) > 50: ... = self.rebalance_history[-50:]"
KeepRecent(history) ==
    IF Len(history) > HISTORY_CAP
    THEN SubSeq(history, Len(history) - HISTORY_CAP + 1, Len(history))
    ELSE history

-----------------------------------------------------------------------------
(* What one handler of a thread does to the wallet *)

\* The wallet calls of a run, in the order they are issued
CallTrace(calls) == [i \in 1..Len(calls) |-> [kind |-> calls[i].kind, ok |-> calls[i].ok]]

\* The calls of all executed actions of a plan
RECURSIVE LogCalls(_)
LogCalls(log) ==
    IF log = << >> THEN << >> ELSE Head(log).calls \o LogCalls(Tail(log))

\* A handler's outcome: its run, and whether PriceMonitor.get_current_price
\* answered inside it (which writes price_cache)
Outcome(run, priced) == [run |-> run, priced |-> priced]

\* auto_balance_portfolio(0.5) on a wallet with this gas and these balances
BalanceOutcomes(gasOk, b0, b1) ==
    {Outcome(AutoBalancePortfolio(50, gasOk, env[1], env[2], b0, b1, p[1], p[2],
                                  env[3], al, env[4], outs),
             gasOk /\ env[1] /\ env[2]) :
        env \in [1..4 -> BOOLEAN], p \in BalancePrices, al \in Allowances,
        outs \in OutcomeSeqs}

AllBalanceOutcomes ==
    UNION {BalanceOutcomes(gasOk, b[1], b[2]) : gasOk \in BOOLEAN, b \in Balances \X Balances}

\* UniswapLiquidityBot.create_initial_position, the 'create' command.
\*   balance   what its auto_balance_portfolio call did
\*   nb0, nb1  the balances read again after a successful balancing
CreateInitialPosition(gasOk, b0, b1, balance, nb0, nb1, poolOk, price, widthLog, allowance0, allowance1, approveTxOk, txOk) ==
    LET t0 == IF balance.run.ok THEN nb0 ELSE b0
        t1 == IF balance.run.ok THEN nb1 ELSE b1
        amount0 == (t0 * 9) \div 10       \* int(token0_balance * 0.90 * 10**decimals)
        amount1 == (t1 * 9) \div 10
        range == IF price = << >> THEN << >>
                 ELSE CalculateTickRange(price[1], widthLog, TickSpacingForFee(POOL_FEE))
        ap0 == IF amount0 > 0 THEN ApproveToken(allowance0, amount0, approveTxOk)
               ELSE Run(TRUE, << >>, 0)
        ap1 == IF amount1 > 0 THEN ApproveToken(allowance1, amount1, approveTxOk)
               ELSE Run(TRUE, << >>, 0)
        done == balance.run.calls
    IN  IF ~gasOk THEN Outcome(Run(FALSE, << >>, 0), FALSE)
        ELSE IF b0 = 0 /\ b1 = 0 THEN Outcome(Run(FALSE, << >>, 0), FALSE)
        ELSE IF ~poolOk THEN Outcome(Run(FALSE, done, 0), balance.priced)
        ELSE IF price = << >> THEN Outcome(Run(FALSE, done, 0), balance.priced)
        ELSE IF range = << >> THEN Outcome(Run(FALSE, done, 0), TRUE)
        ELSE IF ~ap0.ok THEN Outcome(Run(FALSE, done \o ap0.calls, 0), TRUE)
        ELSE IF ~ap1.ok THEN Outcome(Run(FALSE, done \o ap0.calls \o ap1.calls, 0), TRUE)
        ELSE LET m == CreatePosition(POOL_FEE, amount0, amount1, range[1], range[2], txOk)
             IN  Outcome(Run(m.ok, done \o ap0.calls \o ap1.calls \o m.calls, m.attempts),
                         TRUE)

\* The answers the lookups of pool, price and range width can give: <<poolOk, price, widthLog>>
HandlerLookups ==
    {<<FALSE, << >>, 0>>, <<TRUE, << >>, 0>>}
    \cup {<<TRUE, <<0>>, w>> : w \in {0, 10 * LogResolution}}

\* What the handlers leave for the thread to do: the calls, and the cache write
Trace(outcome) == [calls |-> CallTrace(outcome.run.calls), priced |-> outcome.priced]

\* The 'balance' command: UniswapLiquidityBot.balance_portfolio
BalanceTraces == {Trace(o) : o \in AllBalanceOutcomes}

\* The 'create' command
CreateTraces ==
    UNION {UNION {
        {Trace(CreateInitialPosition(gasOk, b[1], b[2], balance, nb[1], nb[2],
                                     lk[1], lk[2], lk[3], al[1], al[2], env[1], env[2])) :
            nb \in Balances \X Balances,
            lk \in HandlerLookups,
            al \in Allowances \X Allowances,
            env \in [1..2 -> BOOLEAN]} :
        balance \in BalanceOutcomes(gasOk, b[1], b[2])} :
        gasOk \in BOOLEAN, b \in Balances \X Balances}

\* One call of monitor_and_rebalance_position on a position that needs a
\* rebalance: the plan for the analysis, executed.  close, balance and create
\* are what the plan's actions do when they are reached.
MonitorOutcome(urgency, liquidity, lk, close, balance, create) ==
    LET actions == CreateRebalancePlan(urgency, liquidity, POOL_FEE, lk[1], lk[2], lk[3])
        sorted  == SortByPriority(actions)
        runs    == [i \in 1..Len(sorted) |->
                      CASE sorted[i].type = "close_position" -> close
                        [] sorted[i].type = "auto_balance"   -> balance.run
                        [] OTHER                             -> create]
        r       == ExecuteRebalancePlan(actions, runs)
    IN  Outcome(Run(r.ok, LogCalls(r.log), 0),
                \/ lk[2] # << >>
                \/ balance.priced /\ \E k \in 1..Len(r.log) : r.log[k].type = "auto_balance")

\* What the plan's create_position can do, if the lookups lead to one
CreateRunsFor(lk) ==
    LET range == IF lk[2] = << >> THEN << >>
                 ELSE CalculateTickRange(lk[2][1], lk[3], TickSpacingForFee(POOL_FEE))
    IN  IF range = << >> THEN {Run(FALSE, << >>, 0)} ELSE CreateRuns(range, POOL_FEE)

\* The main loop's cycles: nothing to do, or a rebalance
MonitorTraces ==
    {[calls |-> << >>, priced |-> FALSE]} \cup
    UNION {
        {Trace(MonitorOutcome(x[1], x[2], x[3], close, balance, create)) :
            close \in RemoveRuns(x[2]),
            balance \in AllBalanceOutcomes,
            create \in CreateRunsFor(x[3])} :
        x \in {"HIGH", "MEDIUM"} \X {0, 1} \X HandlerLookups}

-----------------------------------------------------------------------------
(* Each specification leaves the other parts of the state at rest *)

RetryIdle ==
    /\ rKind = "rebalancer_swap" /\ rAmount0 = 0 /\ rAmount1 = 0 /\ rBalance = 0
    /\ rApproveOk = TRUE /\ rPhase = "idle" /\ rLog = << >> /\ rResult = "none"

PlanIdle ==
    /\ pUrgency = "HIGH" /\ pLiquidity = 0 /\ pFee = 100 /\ pPhase = "idle"
    /\ pLookup = [poolOk |-> FALSE, price |-> << >>, widthLog |-> 0]
    /\ plan = << >> /\ execLog = << >> /\ execResult = "none"

Threads == {"main", "alert", "operator"}

ThreadIdle ==
    /\ running = FALSE /\ priceCached = FALSE
    /\ tPending = [t \in Threads |-> << >>]
    /\ tCall = [t \in Threads |-> << >>]

LoopIdle ==
    /\ lRunning = FALSE /\ lPc = "idle" /\ lIndex = 0 /\ lLiquidity = 0
    /\ lPlan = << >> /\ lStep = 0 /\ lInStep = FALSE /\ lReturn = "none"
    /\ lCycles = 0

HistoryIdle == hPattern = << >> /\ hCalls = << >>

AnalysisIdle == aIn = << >> /\ aOut = << >>

NonceIdle ==
    /\ last_nonce = << >> /\ nPending = 0 /\ nLatest = 0 /\ nSubmitted = << >> /\ nCalls = 0
    /\ nIssued = << >> /\ nResets = 0
    /\ nThread = [t \in {} |-> << >>]

PriceIdle ==
    /\ price_history = << >> /\ phAppended = << >> /\ phReads = 0
    /\ phReader = [t \in {} |-> << >>]

WatchIdle == monitoring = FALSE /\ monitor_thread = 0 /\ mLoops = << >> /\ mCalls = 0

PositionIdle ==
    /\ active_positions = << >> /\ monitored = {} /\ position_metrics = {}
    /\ passList = << >> /\ lastCommand = << >> /\ posCommands = 0

MonitorIdle ==
    /\ curTick = 0 /\ posLower = 0 /\ posUpper = 0 /\ posLiquidity = 0
    /\ thresholdPct = 0 /\ rebalance_history = << >> /\ histPlan = << >>
    /\ cycles = 0

-----------------------------------------------------------------------------
(* RetrySpec: one call of one retry loop, for every input *)

RetryInit ==
    /\ rKind \in RetryKinds
    /\ rAmount0 \in Amounts
    /\ rAmount1 \in (IF rKind = "fixer_mint" THEN Amounts ELSE {0})
    /\ rBalance \in (IF rKind = "rebalancer_swap" THEN Amounts ELSE {0})
    /\ rApproveOk \in BOOLEAN
    /\ rPhase = "ready"
    /\ rLog = << >>
    /\ rResult = "none"
    /\ PlanIdle
    /\ MonitorIdle
    /\ ThreadIdle
    /\ LoopIdle
    /\ HistoryIdle
    /\ AnalysisIdle
    /\ PriceIdle
    /\ NonceIdle
    /\ WatchIdle
    /\ PositionIdle

\* The call: the whole handler, with the chain's answers chosen freely
RetryCall ==
    /\ rPhase = "ready"
    /\ \E outs \in OutcomeSeqs :
         LET r == ExecuteWithRetry(rKind, rAmount0, rAmount1, rBalance, rApproveOk, outs)
         IN  /\ rLog' = r.log
             /\ rResult' = IF r.ok THEN "true" ELSE "false"
    /\ rPhase' = "returned"
    /\ UNCHANGED <<rKind, rAmount0, rAmount1, rBalance, rApproveOk>>
    /\ UNCHANGED <<planVars, monitorVars, threadVars, loopVars, historyVars, analysisVars, priceVars, nonceVars, watchVars, positionVars>>

RetryNext == RetryCall

RetrySpec == RetryInit /\ [][RetryNext]_vars

-----------------------------------------------------------------------------
(* PlanSpec: create_rebalance_plan and execute_rebalance_plan, for every     *)
(* analysis that asks for a rebalance                                        *)

\* Log-prices the pool can answer with: the ends of the tick range, prices
\* around 1.0, between ticks as well as on them
PlanPriceLogs ==
    {MIN_TICK * LogResolution, -61 * LogResolution - 1, -1, 0, 1,
     59 * LogResolution + 1, MAX_TICK * LogResolution}

\* Range widths calculate_dynamic_range can answer with: none (a base range of
\* 0 percent), a fraction of a tick, 10 ticks, 500 ticks
PlanWidthLogs == {0, 1, 10 * LogResolution, 500 * LogResolution}

PlanFees == {100, 500, 3000, 10000}

PlanInit ==
    /\ pUrgency \in {"HIGH", "MEDIUM", "LOW"}
    /\ pLiquidity \in {0, 1}
    /\ pFee \in PlanFees
    /\ pPhase = "analysed"
    /\ pLookup = [poolOk |-> FALSE, price |-> << >>, widthLog |-> 0]
    /\ plan = << >>
    /\ execLog = << >>
    /\ execResult = "none"
    /\ RetryIdle
    /\ MonitorIdle
    /\ ThreadIdle
    /\ LoopIdle
    /\ HistoryIdle
    /\ AnalysisIdle
    /\ PriceIdle
    /\ NonceIdle
    /\ WatchIdle
    /\ PositionIdle

\* plan = self.create_rebalance_plan(analysis)
CreatePlanCall ==
    /\ pPhase = "analysed"
    /\ \E poolOk \in BOOLEAN,
          price \in {<< >>} \cup {<<p>> : p \in PlanPriceLogs},
          widthLog \in PlanWidthLogs :
         \* what is not looked up is not answered
         /\ ~poolOk => price = << >>
         /\ price = << >> => widthLog = 0
         /\ pLookup' = [poolOk |-> poolOk, price |-> price, widthLog |-> widthLog]
         /\ plan' = CreateRebalancePlan(pUrgency, pLiquidity, pFee, poolOk, price, widthLog)
    /\ pPhase' = "planned"
    /\ UNCHANGED <<pUrgency, pLiquidity, pFee, execLog, execResult>>
    /\ UNCHANGED <<retryVars, monitorVars, threadVars, loopVars, historyVars, analysisVars, priceVars, nonceVars, watchVars, positionVars>>

\* success = self.execute_rebalance_plan(plan), called for a non-empty plan
ExecutePlanCall ==
    /\ pPhase = "planned"
    /\ plan # << >>
    /\ \E runs \in PlanRuns(SortByPriority(plan), pLiquidity, pFee, 1) :
         LET r == ExecuteRebalancePlan(plan, runs)
         IN  /\ execLog' = r.log
             /\ execResult' = IF r.ok THEN "true" ELSE "false"
    /\ pPhase' = "executed"
    /\ UNCHANGED <<pUrgency, pLiquidity, pFee, pLookup, plan>>
    /\ UNCHANGED <<retryVars, monitorVars, threadVars, loopVars, historyVars, analysisVars, priceVars, nonceVars, watchVars, positionVars>>

PlanNext == CreatePlanCall \/ ExecutePlanCall

PlanSpec == PlanInit /\ [][PlanNext]_vars

-----------------------------------------------------------------------------
(* Spec: the monitoring of one position over a moving pool price *)

\* Ticks the pool can stand at: below the position's range, at its centre,
\* between centre and edge
PoolTicks == {-121, 0, 30}

\* The range of the monitored position: one calculate_tick_range gives
PositionRange ==
    CalculateTickRange(0, 10 * LogResolution, TickSpacingForFee(POOL_FEE))

Init ==
    /\ curTick \in PoolTicks
    /\ posLower = PositionRange[1]
    /\ posUpper = PositionRange[2]
    /\ posLiquidity \in {0, 1}
    /\ thresholdPct \in {50, 80}
    /\ rebalance_history = << >>
    /\ histPlan = << >>
    /\ cycles = 0
    /\ RetryIdle
    /\ PlanIdle
    /\ ThreadIdle
    /\ LoopIdle
    /\ HistoryIdle
    /\ AnalysisIdle
    /\ PriceIdle
    /\ NonceIdle
    /\ WatchIdle
    /\ PositionIdle

\* The pool trades: its tick moves
PriceMoves ==
    /\ \E t \in PoolTicks \ {curTick} : curTick' = t
    /\ UNCHANGED <<posLower, posUpper, posLiquidity, thresholdPct,
                   rebalance_history, histPlan, cycles>>
    /\ UNCHANGED <<retryVars, planVars, threadVars, loopVars, historyVars, analysisVars, priceVars, nonceVars, watchVars, positionVars>>

\* What one executed plan leaves behind
RebalanceEffect(analysis, actions, r) ==
    /\ rebalance_history' =
           KeepRecent(Append(rebalance_history,
                             HistoryEntry(cycles + 1, analysis, r.ok, Len(actions))))
    /\ histPlan' =
           KeepRecent(Append(histPlan,
               [complete     |-> \E k \in 1..Len(actions) : actions[k].type = "create_position",
                allSucceeded |-> /\ Len(r.log) = Len(actions)
                                 /\ \A k \in 1..Len(r.log) : r.log[k].ok,
                returned     |-> r.ok]))
    /\ posLiquidity' =
           IF \E k \in 1..Len(r.log) : r.log[k].type = "close_position" /\ r.log[k].ok
           THEN 0 ELSE posLiquidity

\* What the planner's lookups of pool, price and range width can answer:
\* <<poolOk, priceOk, widthLog>>; what is not looked up is not answered
MonitorLookups ==
    {lk \in BOOLEAN \X BOOLEAN \X PlanWidthLogs :
        /\ ~lk[1] => ~lk[2]
        /\ ~lk[2] => lk[3] = 0}

\* PositionRebalancer.monitor_and_rebalance_position(token_id): one call,
\* the position's reads answered or not (readOk), the planner's lookups
\* answered with one of lookups, the plan's actions with one of txAnswers
MonitorCall(readOk, lookups, txAnswers) ==
    /\ cycles' = cycles + 1
    /\ LET analysis == AnalyzePositionHealth(readOk, curTick, posLower, posUpper,
                                             posLiquidity, thresholdPct, 0)
       IN  IF ~analysis.ok \/ ~analysis.needs_rebalance
           THEN UNCHANGED <<rebalance_history, histPlan, posLiquidity>>
           ELSE \E lk \in lookups :
                    LET price   == IF lk[2] THEN <<curTick * LogResolution>> ELSE << >>
                        actions == CreateRebalancePlan(analysis.urgency, analysis.liquidity,
                                                       POOL_FEE, lk[1], price, lk[3])
                    IN   IF actions = << >>
                         THEN UNCHANGED <<rebalance_history, histPlan, posLiquidity>>
                         ELSE \E runs \in PlanAnswerRuns(SortByPriority(actions),
                                                         posLiquidity, POOL_FEE, 1) :
                                /\ \A k \in 1..Len(runs) : runs[k].ok \in txAnswers
                                /\ RebalanceEffect(analysis, actions,
                                                   ExecuteRebalancePlan(actions, runs))
    /\ UNCHANGED <<posLower, posUpper, thresholdPct>>

\* One call of the main loop, with the chain's answers chosen freely
MonitorAndRebalancePosition ==
    /\ cycles < MaxCycles
    /\ \E readOk \in BOOLEAN : MonitorCall(readOk, MonitorLookups, BOOLEAN)
    /\ UNCHANGED curTick
    /\ UNCHANGED <<retryVars, planVars, threadVars, loopVars, historyVars, analysisVars, priceVars, nonceVars, watchVars, positionVars>>

Next == PriceMoves \/ MonitorAndRebalancePosition

Spec == Init /\ [][Next]_vars

-----------------------------------------------------------------------------
(* HistorySpec: a run of monitor calls long enough for the history to be    *)
(* cut.  The chain's answers alternate between two sets chosen at the       *)
(* start; the planner's lookups are always answered.                        *)

\* What the chain answers to one call: where the pool stands, whether the
\* position can be read, whether the transactions of the plan go through
HistoryAnswers ==
    [tick : PoolTicks, readOk : {TRUE}, txOk : BOOLEAN]
        \cup [tick : {0}, readOk : {FALSE}, txOk : {TRUE}]

\* The answers to the call after n calls
HistoryAnswer(n) == IF n % 2 = 0 THEN hPattern.odd ELSE hPattern.even

HistoryInit ==
    /\ hPattern \in [odd : HistoryAnswers, even : HistoryAnswers]
    /\ hCalls = << >>
    /\ curTick = hPattern.odd.tick
    /\ posLower = PositionRange[1]
    /\ posUpper = PositionRange[2]
    /\ posLiquidity \in {0, 1}
    /\ thresholdPct \in {50, 80}
    /\ rebalance_history = << >>
    /\ histPlan = << >>
    /\ cycles = 0
    /\ RetryIdle
    /\ PlanIdle
    /\ ThreadIdle
    /\ LoopIdle
    /\ AnalysisIdle
    /\ PriceIdle
    /\ NonceIdle
    /\ WatchIdle
    /\ PositionIdle

\* The next call of monitor_and_rebalance_position; hCalls notes when it was
\* made and whether the analysis asked for a rebalance.  The pool has moved
\* before the call after it.
HistoryCall ==
    /\ cycles < MaxHistoryCalls
    /\ LET answer   == HistoryAnswer(cycles)
           analysis == AnalyzePositionHealth(answer.readOk, curTick, posLower, posUpper,
                                             posLiquidity, thresholdPct, 0)
       IN  /\ MonitorCall(answer.readOk, {<<TRUE, TRUE, 10 * LogResolution>>}, {answer.txOk})
           /\ hCalls' = Append(hCalls, [timestamp |-> cycles + 1,
                                        needed    |-> analysis.ok /\ analysis.needs_rebalance])
    /\ curTick' = HistoryAnswer(cycles + 1).tick
    /\ UNCHANGED hPattern
    /\ UNCHANGED <<retryVars, planVars, threadVars, loopVars, analysisVars, priceVars, nonceVars, watchVars, positionVars>>

HistoryNext == HistoryCall

HistorySpec == HistoryInit /\ [][HistoryNext]_vars

-----------------------------------------------------------------------------
(* AnalysisSpec: one call of analyze_position_health, or of the health      *)
(* score alone, for every input                                             *)

\* Pool ticks around the position's range [-60, 60]: outside it, on its
\* edges, 5% and 25% inside it, at its centre
AnalysisTicks == {-121, -60, -54, 0, 30, 60, 61}

\* Pool volatilities, in tenths of a percent
Volatilities == {0, 40, 60, 200}

\* config.rebalance_threshold, which _validate_range_settings keeps in [50, 95]
ThresholdPcts == {50, 80}

AnalysisInputs ==
    [kind : {"analyze"}, readOk : BOOLEAN, tick : AnalysisTicks,
     lower : {PositionRange[1]}, upper : {PositionRange[2]},
     liquidity : {0, 1}, pct : ThresholdPcts, volatility : Volatilities]

\* Range statuses for the health score alone: any ratio, with or without the
\* keys "range_utilization" and "volatility"
ScoreRangeStatuses ==
    [in_range : BOOLEAN, ratioNum : {0, 1, 2, 4}, ratioDen : {4}]
        \cup [in_range : BOOLEAN, ratioNum : {0, 1, 2, 4}, ratioDen : {4},
              range_utilization : {<<0, 1>>, <<3, 10>>, <<1, 1>>}, volatility : Volatilities]

ScoreInputs == [kind : {"score"}, range_status : ScoreRangeStatuses, liquidity : {0, 1}]

AnalysisInit ==
    /\ aIn \in AnalysisInputs \cup ScoreInputs
    /\ aOut = << >>
    /\ RetryIdle
    /\ PlanIdle
    /\ MonitorIdle
    /\ ThreadIdle
    /\ LoopIdle
    /\ HistoryIdle
    /\ PriceIdle
    /\ NonceIdle
    /\ WatchIdle
    /\ PositionIdle

\* analysis = self.analyze_position_health(token_id)
AnalyzeCall ==
    /\ aIn.kind = "analyze"
    /\ aOut = << >>
    /\ aOut' = AnalyzePositionHealth(aIn.readOk, aIn.tick, aIn.lower, aIn.upper,
                                     aIn.liquidity, aIn.pct, aIn.volatility)
    /\ UNCHANGED aIn
    /\ UNCHANGED <<retryVars, planVars, monitorVars, threadVars, loopVars, historyVars, priceVars, nonceVars, watchVars, positionVars>>

\* self._calculate_enhanced_health_score(range_status, liquidity)
ScoreCall ==
    /\ aIn.kind = "score"
    /\ aOut = << >>
    /\ aOut' = [range_status |-> aIn.range_status,
                health_score |-> CalculateEnhancedHealthScore(aIn.range_status, aIn.liquidity)]
    /\ UNCHANGED aIn
    /\ UNCHANGED <<retryVars, planVars, monitorVars, threadVars, loopVars, historyVars, priceVars, nonceVars, watchVars, positionVars>>

AnalysisNext == AnalyzeCall \/ ScoreCall

AnalysisSpec == AnalysisInit /\ [][AnalysisNext]_vars

-----------------------------------------------------------------------------
(* RangeSpec: one call of is_position_in_range, for every input *)

\* Positions: the one the bot opens, a narrow one, one away from tick 0, and
\* one whose two ticks coincide
StatusRanges == {PositionRange, <<-10, 10>>, <<60, 180>>, <<60, 60>>}

\* Pool ticks below, on, inside and above these ranges
StatusTicks == {-121, -61, -60, -54, -10, 0, 30, 60, 61, 120, 181}

RangeInputs ==
    [kind : {"range"}, tick : StatusTicks, range : StatusRanges, volatility : {0, 40}]

RangeInit ==
    /\ aIn \in RangeInputs
    /\ aOut = << >>
    /\ RetryIdle
    /\ PlanIdle
    /\ MonitorIdle
    /\ ThreadIdle
    /\ LoopIdle
    /\ HistoryIdle
    /\ PriceIdle
    /\ NonceIdle
    /\ WatchIdle
    /\ PositionIdle

\* range_info = self.uniswap.is_position_in_range(token_id)
RangeStatusCall ==
    /\ aIn.kind = "range"
    /\ aOut = << >>
    /\ aOut' = [status |-> IsPositionInRange(aIn.tick, aIn.range[1], aIn.range[2],
                                             aIn.volatility),
                tick_deviation |-> TickDeviation(aIn.tick, aIn.range[1], aIn.range[2])]
    /\ UNCHANGED aIn
    /\ UNCHANGED <<retryVars, planVars, monitorVars, threadVars, loopVars, historyVars, priceVars, nonceVars, watchVars, positionVars>>

RangeNext == RangeStatusCall

RangeSpec == RangeInit /\ [][RangeNext]_vars

-----------------------------------------------------------------------------
(* TickRangeSpec: one call of calculate_tick_range, for every input *)

\* Prices, as LogResolution * log(price) / log(1.0001): next to the lowest
\* and to the highest tick, below, at and above price 1
TickPriceLogs ==
    {MIN_TICK * LogResolution + 5, -121 * LogResolution - 1, -1, 0, 1, 7,
     30 * LogResolution, MAX_TICK * LogResolution - 5}

\* Range widths, as LogResolution * log(1 + range_percent / 100) / log(1.0001):
\* none (range_percent <= 0), a fraction of a tick, 1, 10, 20 and 500 ticks
TickWidthLogs ==
    {0, 1, LogResolution, 10 * LogResolution, 20 * LogResolution, 500 * LogResolution}

TickSpacings == {TickSpacingForFee(fee) : fee \in {100, 500, 3000, 10000}}

TickRangeInputs ==
    [kind : {"tick_range"}, priceLog : TickPriceLogs, widthLog : TickWidthLogs,
     spacing : TickSpacings]

TickRangeInit ==
    /\ aIn \in TickRangeInputs
    /\ aOut = << >>
    /\ RetryIdle
    /\ PlanIdle
    /\ MonitorIdle
    /\ ThreadIdle
    /\ LoopIdle
    /\ HistoryIdle
    /\ PriceIdle
    /\ NonceIdle
    /\ WatchIdle
    /\ PositionIdle

\* self.uniswap.calculate_tick_range(current_price, range_percent, tick_spacing)
TickRangeCall ==
    /\ aIn.kind = "tick_range"
    /\ aOut = << >>
    /\ aOut' = [range |-> CalculateTickRange(aIn.priceLog, aIn.widthLog, aIn.spacing)]
    /\ UNCHANGED aIn
    /\ UNCHANGED <<retryVars, planVars, monitorVars, threadVars, loopVars, historyVars, priceVars, nonceVars, watchVars, positionVars>>

TickRangeNext == TickRangeCall

TickRangeSpec == TickRangeInit /\ [][TickRangeNext]_vars

-----------------------------------------------------------------------------
(* DynamicRangeSpec: one call of calculate_dynamic_range, for every         *)
(* configuration a configuration file can give                              *)

\* What config.json can hold; base ranges are positive
RangeConfigs ==
    [price_range_percent      : {200, 500, 3000},
     min_price_range_percent  : {100, 600},
     max_price_range_percent  : {400, 2000},
     dynamic_range            : BOOLEAN,
     volatility_multiplier    : {1, 2},
     range_calculation_method : {"fixed", "volatility_based", "adaptive"},
     range_buffer_percent     : {0, 1000}]

DynamicRangeInputs ==
    [kind : {"dynamic_range"}, priceValid : BOOLEAN, config : RangeConfigs,
     volatility : {0, 100, 900}, recent : {<< >>, <<0>>, <<300>>, <<5000>>}]

DynamicRangeInit ==
    /\ aIn \in DynamicRangeInputs
    /\ aOut = << >>
    /\ RetryIdle
    /\ PlanIdle
    /\ MonitorIdle
    /\ ThreadIdle
    /\ LoopIdle
    /\ HistoryIdle
    /\ PriceIdle
    /\ NonceIdle
    /\ WatchIdle
    /\ PositionIdle

\* load_config, then calculate_dynamic_range(current_price, self.config)
DynamicRangeCall ==
    /\ aIn.kind = "dynamic_range"
    /\ aOut = << >>
    /\ LET config == ValidateRangeSettings(aIn.config)
       IN  aOut' = [config |-> config,
                    range  |-> CalculateDynamicRange(aIn.priceValid, config,
                                                     aIn.volatility, aIn.recent)]
    /\ UNCHANGED aIn
    /\ UNCHANGED <<retryVars, planVars, monitorVars, threadVars, loopVars, historyVars, priceVars, nonceVars, watchVars, positionVars>>

DynamicRangeNext == DynamicRangeCall

DynamicRangeSpec == DynamicRangeInit /\ [][DynamicRangeNext]_vars

-----------------------------------------------------------------------------
(* BalanceSpec: one call of auto_balance_portfolio on a wallet and a pool.  *)

\* Balances of the wallet in wei: nothing, one wei, one token, 1000 tokens
PortfolioBalances == {0, 1, 10 ^ TokenDecimals, 1000 * 10 ^ TokenDecimals}

\* target_ratio in percent
TargetRatios == {30, 50}

\* Native balances the wallet can answer with: none (or a failed read), just
\* below the minimum, the minimum, above it
GasBalances == {0, MIN_GAS_BALANCE - 1, MIN_GAS_BALANCE, MIN_GAS_BALANCE + 1}

\* What the three swap attempts can meet
SwapOutcomeSeqs ==
    {<<"ok", "ok", "ok">>, <<"timeout", "revert", "ok">>, <<"revert", "submit_error", "timeout">>}

BalanceInputs ==
    [kind : {"balance"}, target : TargetRatios, gas : GasBalances, poolOk : BOOLEAN,
     priceOk : BOOLEAN, balance0 : PortfolioBalances, balance1 : PortfolioBalances,
     price : BalancePrices, readOk : BOOLEAN, allowance : Allowances,
     approveTxOk : BOOLEAN, outs : SwapOutcomeSeqs]

BalanceInit ==
    /\ aIn \in BalanceInputs
    /\ aOut = << >>
    /\ RetryIdle
    /\ PlanIdle
    /\ MonitorIdle
    /\ ThreadIdle
    /\ LoopIdle
    /\ HistoryIdle
    /\ PriceIdle
    /\ NonceIdle
    /\ WatchIdle
    /\ PositionIdle

\* auto_balance_portfolio(target_ratio): the swap it asks
\* _execute_celo_optimized_swap for (none before the amounts are compared) and
\* what the call did and returned
BalanceCall ==
    /\ aIn.kind = "balance"
    /\ aOut = << >>
    /\ LET compared == /\ GasOk(aIn.gas)
                        /\ aIn.poolOk
                        /\ aIn.priceOk
                        /\ aIn.balance1 * aIn.price[2] + aIn.balance0 * aIn.price[1] # 0
       IN  aOut' = [compared |-> compared,
                    swap     |-> IF compared
                                 THEN BalanceSwap(aIn.target, aIn.balance0, aIn.balance1,
                                                  aIn.price[1], aIn.price[2])
                                 ELSE << >>,
                    run      |-> AutoBalancePortfolio(aIn.target, GasOk(aIn.gas), aIn.poolOk,
                                     aIn.priceOk, aIn.balance0, aIn.balance1,
                                     aIn.price[1], aIn.price[2], aIn.readOk,
                                     aIn.allowance, aIn.approveTxOk, aIn.outs)]
    /\ UNCHANGED aIn
    /\ UNCHANGED <<retryVars, planVars, monitorVars, threadVars, loopVars, historyVars, priceVars, nonceVars, watchVars, positionVars>>

BalanceNext == BalanceCall

BalanceSpec == BalanceInit /\ [][BalanceNext]_vars

-----------------------------------------------------------------------------
(* SellSpec: one call of auto_balance_portfolio that gets as far as         *)
(* comparing the amounts, for every target ratio from 0 to 1, on balances    *)
(* that do not change during the call                                       *)

\* target_ratio in percent: all in token0, the two of BalanceSpec, all in token1
SellTargetRatios == {0, 30, 50, 100}

SellInputs ==
    [kind : {"balance"}, target : SellTargetRatios, gas : {MIN_GAS_BALANCE}, poolOk : {TRUE},
     priceOk : {TRUE}, balance0 : PortfolioBalances, balance1 : PortfolioBalances,
     price : BalancePrices, readOk : {TRUE}, allowance : Allowances,
     approveTxOk : BOOLEAN, outs : SwapOutcomeSeqs]

SellInit ==
    /\ aIn \in SellInputs
    /\ aOut = << >>
    /\ RetryIdle
    /\ PlanIdle
    /\ MonitorIdle
    /\ ThreadIdle
    /\ LoopIdle
    /\ HistoryIdle
    /\ PriceIdle
    /\ NonceIdle
    /\ WatchIdle
    /\ PositionIdle

SellNext == BalanceCall

SellSpec == SellInit /\ [][SellNext]_vars

-----------------------------------------------------------------------------
(* ActionSpec: one action that spends tokens, from its first check to its   *)
(* return: a swap_tokens action, auto_balance_portfolio, or the creation of *)
(* a position.                                                              *)

\* Amounts (wei) a swap_tokens action can ask for and balances it can meet
SwapAmounts == {1, MaxSmallAmount, AmountScale}
SwapBalances == {0, MaxSmallAmount - 1, MaxSmallAmount, AmountScale * MaxSmallAmount}

SwapTokensInputs ==
    [kind : {"swap_tokens"}, gas : GasBalances, amount : SwapAmounts, balance : SwapBalances,
     allowance : Allowances, approveTxOk : BOOLEAN, outs : SwapOutcomeSeqs]

CreatePositionInputs ==
    [kind : {"create_position"}, gas : GasBalances, range : {<<-60, 60>>}, fee : {POOL_FEE},
     balance0 : Balances, balance1 : Balances, allowance0 : Allowances,
     allowance1 : Allowances, approveTxOk : BOOLEAN, txOk : BOOLEAN]

\* auto_balance_portfolio on a pool that answers
AutoBalanceInputs ==
    {in \in BalanceInputs : in.poolOk /\ in.priceOk /\ in.target = 50 /\ in.allowance = 0}

ActionInit ==
    /\ aIn \in SwapTokensInputs \cup CreatePositionInputs \cup AutoBalanceInputs
    /\ aOut = << >>
    /\ RetryIdle
    /\ PlanIdle
    /\ MonitorIdle
    /\ ThreadIdle
    /\ LoopIdle
    /\ HistoryIdle
    /\ PriceIdle
    /\ NonceIdle
    /\ WatchIdle
    /\ PositionIdle

\* _execute_single_action(action), action.action_type == "swap_tokens"
SwapTokensCall ==
    /\ aIn.kind = "swap_tokens"
    /\ aOut = << >>
    /\ aOut' = [run |-> SwapTokens(aIn.gas, aIn.amount, 1, aIn.balance, aIn.allowance,
                                   aIn.approveTxOk, aIn.outs)]
    /\ UNCHANGED aIn
    /\ UNCHANGED <<retryVars, planVars, monitorVars, threadVars, loopVars, historyVars, priceVars, nonceVars, watchVars, positionVars>>

\* _execute_single_action(action), action.action_type == "create_position"
CreatePositionCall ==
    /\ aIn.kind = "create_position"
    /\ aOut = << >>
    /\ aOut' = [run |-> CreateCeloOptimizedPosition(aIn.range, aIn.fee, GasOk(aIn.gas),
                             aIn.balance0, aIn.balance1, aIn.allowance0, aIn.allowance1,
                             aIn.approveTxOk, aIn.txOk)]
    /\ UNCHANGED aIn
    /\ UNCHANGED <<retryVars, planVars, monitorVars, threadVars, loopVars, historyVars, priceVars, nonceVars, watchVars, positionVars>>

ActionNext == SwapTokensCall \/ CreatePositionCall \/ BalanceCall

ActionSpec == ActionInit /\ [][ActionNext]_vars

-----------------------------------------------------------------------------
(* ThreadSpec: the three threads of the running bot.  start() starts the    *)
(* price monitor's thread and the main loop's thread and runs the command   *)
(* loop in the calling thread; no lock is taken anywhere.                   *)

ThreadInit ==
    /\ running = TRUE
    /\ tPending = [t \in Threads |-> << >>]
    /\ tCall = [t \in Threads |-> << >>]
    /\ priceCached = FALSE
    /\ RetryIdle
    /\ PlanIdle
    /\ MonitorIdle
    /\ LoopIdle
    /\ HistoryIdle
    /\ AnalysisIdle
    /\ PriceIdle
    /\ NonceIdle
    /\ WatchIdle
    /\ PositionIdle

ThreadFree(t) == tPending[t] = << >> /\ tCall[t] = << >>

StartHandler(t, trace) ==
    /\ tPending' = [tPending EXCEPT ![t] = trace.calls]
    /\ priceCached' = (priceCached \/ trace.priced)
    /\ UNCHANGED <<running, tCall>>

\* _main_loop: one pass over the monitored position
MainLoopCycle ==
    /\ running
    /\ ThreadFree("main")
    /\ \E trace \in MonitorTraces : StartHandler("main", trace)
    /\ UNCHANGED <<retryVars, planVars, monitorVars, loopVars, historyVars, analysisVars, priceVars, nonceVars, watchVars, positionVars>>

\* _start_user_interface: the operator types 'create' or 'balance'
OperatorCommand ==
    /\ running
    /\ ThreadFree("operator")
    /\ \E command \in {"create", "balance"} :
         \E trace \in (IF command = "create" THEN CreateTraces ELSE BalanceTraces) :
            StartHandler("operator", trace)
    /\ UNCHANGED <<retryVars, planVars, monitorVars, loopVars, historyVars, analysisVars, priceVars, nonceVars, watchVars, positionVars>>

\* The operator types 'stop': stop(), the command loop ends, start() returns
\* and the process exits, taking its daemon threads with it
OperatorStop ==
    /\ running
    /\ ThreadFree("operator")
    /\ running' = FALSE
    /\ tPending' = [t \in Threads |-> << >>]
    /\ tCall' = [t \in Threads |-> << >>]
    /\ UNCHANGED priceCached
    /\ UNCHANGED <<retryVars, planVars, monitorVars, loopVars, historyVars, analysisVars, priceVars, nonceVars, watchVars, positionVars>>

\* PriceMonitor._monitor_loop: no alert is ever registered, so the pass checks
\* nothing and cleans the cache: an entry older than an hour is dropped
PriceMonitorLoop ==
    /\ running
    /\ priceCached
    /\ priceCached' = FALSE
    /\ UNCHANGED <<running, tPending, tCall>>
    /\ UNCHANGED <<retryVars, planVars, monitorVars, loopVars, historyVars, analysisVars, priceVars, nonceVars, watchVars, positionVars>>

\* A thread enters its next wallet call: send_transaction, then wait_for_transaction
BeginCall(t) ==
    /\ running
    /\ tPending[t] # << >>
    /\ tCall[t] = << >>
    /\ tCall' = [tCall EXCEPT ![t] = <<Head(tPending[t])>>]
    /\ tPending' = [tPending EXCEPT ![t] = Tail(tPending[t])]
    /\ UNCHANGED <<running, priceCached>>
    /\ UNCHANGED <<retryVars, planVars, monitorVars, loopVars, historyVars, analysisVars, priceVars, nonceVars, watchVars, positionVars>>

\* The call returns: the transaction is confirmed, or has failed
EndCall(t) ==
    /\ running
    /\ tCall[t] # << >>
    /\ tCall' = [tCall EXCEPT ![t] = << >>]
    /\ UNCHANGED <<running, tPending, priceCached>>
    /\ UNCHANGED <<retryVars, planVars, monitorVars, loopVars, historyVars, analysisVars, priceVars, nonceVars, watchVars, positionVars>>

ThreadNext ==
    \/ MainLoopCycle
    \/ OperatorCommand
    \/ OperatorStop
    \/ PriceMonitorLoop
    \/ \E t \in Threads : BeginCall(t)
    \/ \E t \in Threads : EndCall(t)

ThreadSpec == ThreadInit /\ [][ThreadNext]_vars

-----------------------------------------------------------------------------
(* SettlementSpec: the swap attempts of one _execute_celo_optimized_swap    *)
(* and what becomes of their transactions on the chain.  An attempt waits   *)
(* 300 s for its receipt; the swap it submitted is valid for 900 s.         *)

\* What becomes of a transaction in the end: mined with status 1, mined with
\* status 0, or never mined
TxFates == {"executed", "reverted", "dropped"}

\* The fate of a transaction and what its attempt saw of it: a receipt seen
\* is the fate; a transaction that was not sent has none; a wait that timed
\* out says nothing
FateAgrees(outcome, fate) ==
    CASE outcome = "ok"           -> fate = "executed"
      [] outcome = "revert"       -> fate = "reverted"
      [] outcome = "submit_error" -> fate = "dropped"
      [] OTHER                    -> TRUE

\* _get_next_nonce gives every transaction a nonce above the one sent before
\* it (max(pending count, last_nonce + 1)): a transaction is mined only after
\* the transactions sent before it
NonceOrdered(outs, fates) ==
    \A j \in DOMAIN outs, k \in DOMAIN outs :
        (j < k /\ outs[j] # "submit_error" /\ fates[k] # "dropped") => fates[j] # "dropped"

\* The attempts of a retry log whose swap took effect on the chain
SwapsOnChain(log, fates) ==
    {k \in 1..Len(log) : log[k].submitted /\ fates[k] = "executed"}

SettlementInputs ==
    {in \in [kind : {"swap_attempts"}, amount : {0, AmountScale}, outs : OutcomeSeqs,
             fates : [1..3 -> TxFates]] :
        /\ \A k \in 1..3 : FateAgrees(in.outs[k], in.fates[k])
        /\ NonceOrdered(in.outs, in.fates)}

SettlementInit ==
    /\ aIn \in SettlementInputs
    /\ aOut = << >>
    /\ RetryIdle
    /\ PlanIdle
    /\ MonitorIdle
    /\ ThreadIdle
    /\ LoopIdle
    /\ HistoryIdle
    /\ PriceIdle
    /\ NonceIdle
    /\ WatchIdle
    /\ PositionIdle

\* The retry loop of _execute_celo_optimized_swap, then the chain settling
\* the transactions the loop left behind
SwapAttemptsCall ==
    /\ aIn.kind = "swap_attempts"
    /\ aOut = << >>
    /\ LET log == RetryLoop("rebalancer_swap", aIn.amount, 0, aIn.outs, 0)
       IN  aOut' = [log     |-> log,
                    ok      |-> LoopResult(log),
                    onChain |-> SwapsOnChain(log, aIn.fates)]
    /\ UNCHANGED aIn
    /\ UNCHANGED <<retryVars, planVars, monitorVars, threadVars, loopVars, historyVars, priceVars, nonceVars, watchVars, positionVars>>

SettlementNext == SwapAttemptsCall

SettlementSpec == SettlementInit /\ [][SettlementNext]_vars

-----------------------------------------------------------------------------
(* WatchSpec: start_monitoring and stop_monitoring called in any order on    *)
(* one PriceMonitor, and the _monitor_loop threads they start, one           *)
(* statement at a time.  The loop sleeps check_interval = 30 s between two   *)
(* passes; stop_monitoring waits at most 5 s for it.                         *)

\* start_monitoring and stop_monitoring calls in one behaviour
MaxMonitorCalls == 5

\* A thread that start_monitoring has just started
NewLoop == [pc |-> "test", stopped |-> FALSE, resumed |-> FALSE]

\* "self.monitor_thread.is_alive()"
IsAlive(i) == mLoops[i].pc # "done"

WatchInit ==
    /\ monitoring = FALSE
    /\ monitor_thread = 0
    /\ mLoops = << >>
    /\ mCalls = 0
    /\ RetryIdle
    /\ PlanIdle
    /\ MonitorIdle
    /\ ThreadIdle
    /\ LoopIdle
    /\ HistoryIdle
    /\ AnalysisIdle
    /\ PriceIdle
    /\ NonceIdle
    /\ PositionIdle

WatchFrame ==
    UNCHANGED <<retryVars, planVars, monitorVars, threadVars, loopVars, historyVars, analysisVars, priceVars, nonceVars, positionVars>>

\* start_monitoring: nothing when the flag is set, else the flag and a new thread
StartMonitoring ==
    /\ mCalls < MaxMonitorCalls
    /\ mCalls' = mCalls + 1
    /\ IF monitoring
       THEN UNCHANGED <<monitoring, monitor_thread, mLoops>>
       ELSE /\ monitoring' = TRUE
            /\ mLoops' = Append(mLoops, NewLoop)
            /\ monitor_thread' = Len(mLoops) + 1
    /\ WatchFrame

\* What join(timeout=5) can see of a loop: one about to test the flag ends, one
\* inside a pass goes on to sleep 30 s, one asleep wakes within the 5 s or not
JoinedInTime(i) ==
    CASE mLoops[i].pc = "test" -> {TRUE}
      [] mLoops[i].pc = "body" -> {FALSE}
      [] mLoops[i].pc = "sleep" -> BOOLEAN
      [] OTHER -> {TRUE}

\* stop_monitoring: the flag is cleared and the latest thread is joined for 5 s
StopMonitoring ==
    /\ mCalls < MaxMonitorCalls
    /\ mCalls' = mCalls + 1
    /\ monitoring' = FALSE
    /\ \E joined \in (IF monitor_thread # 0 THEN JoinedInTime(monitor_thread) ELSE {FALSE}) :
         mLoops' = [i \in 1..Len(mLoops) |->
                      IF ~IsAlive(i) THEN mLoops[i]
                      ELSE [mLoops[i] EXCEPT !.stopped = TRUE,
                                             !.pc = IF i = monitor_thread /\ joined
                                                    THEN "done" ELSE @]]
    /\ UNCHANGED monitor_thread
    /\ WatchFrame

\* "while self.monitoring:"
LoopTest(i) ==
    /\ mLoops[i].pc = "test"
    /\ mLoops' = [mLoops EXCEPT ![i] =
                     IF monitoring
                     THEN [@ EXCEPT !.pc = "body", !.resumed = @ \/ mLoops[i].stopped]
                     ELSE [@ EXCEPT !.pc = "done"]]
    /\ UNCHANGED <<monitoring, monitor_thread, mCalls>>
    /\ WatchFrame

\* One pass: the alerts are checked and the cache is cleaned
LoopPass(i) ==
    /\ mLoops[i].pc = "body"
    /\ mLoops' = [mLoops EXCEPT ![i].pc = "sleep"]
    /\ UNCHANGED <<monitoring, monitor_thread, mCalls>>
    /\ WatchFrame

\* "time.sleep(self.check_interval)" returns
LoopWake(i) ==
    /\ mLoops[i].pc = "sleep"
    /\ mLoops' = [mLoops EXCEPT ![i].pc = "test"]
    /\ UNCHANGED <<monitoring, monitor_thread, mCalls>>
    /\ WatchFrame

WatchNext ==
    \/ StartMonitoring
    \/ StopMonitoring
    \/ \E i \in 1..Len(mLoops) : LoopTest(i)
    \/ \E i \in 1..Len(mLoops) : LoopPass(i)
    \/ \E i \in 1..Len(mLoops) : LoopWake(i)

WatchSpec == WatchInit /\ [][WatchNext]_vars

-----------------------------------------------------------------------------
(* PositionSpec: the operator's add and remove commands and the main loop's  *)
(* pass over the monitored positions.  The two run in different threads; a   *)
(* command is one step, a pass is one step for each position it visits.      *)

\* Position NFTs of the wallet
TokenIds == {1, 2}

\* add and remove commands in one behaviour
MaxPositionCommands == 3

\* The ids of a list of position records
IdsOf(positions) == {positions[k] : k \in 1..Len(positions)}

\* "for pos in self.active_positions: if pos["token_id"] == token_id"
AlreadyMonitoredNever(positions, token_id) == FALSE

AlreadyMonitored(positions, token_id) == token_id \in IdsOf(positions)

\* "[pos for pos in self.active_positions if pos["token_id"] != token_id]"
WithoutPosition(positions, token_id) == SelectSeq(positions, LAMBDA id : id # token_id)

\* positions.json as the bot saved it, loaded by _load_positions, which adds
\* each position to the rebalancer
SavedPositions == {<< >>, <<1>>, <<1, 2>>}

PositionInit ==
    /\ active_positions \in SavedPositions
    /\ monitored = IdsOf(active_positions)
    /\ position_metrics = IdsOf(active_positions)
    /\ passList = << >>
    /\ lastCommand = << >>
    /\ posCommands = 0
    /\ RetryIdle
    /\ PlanIdle
    /\ MonitorIdle
    /\ ThreadIdle
    /\ LoopIdle
    /\ HistoryIdle
    /\ AnalysisIdle
    /\ PriceIdle
    /\ NonceIdle
    /\ WatchIdle

PositionFrame ==
    UNCHANGED <<retryVars, planVars, monitorVars, threadVars, loopVars, historyVars, analysisVars, priceVars, nonceVars, watchVars>>

\* What a command found: the collections as they were
Before(command, token_id) ==
    [command |-> command, token_id |-> token_id, positions |-> active_positions,
     monitored |-> monitored]

\* add_position: nothing for a position that is not the wallet's or is already
\* in the list; else it is appended to the list the attribute refers to, added
\* to the rebalancer with fresh metrics, and analysed
AddPosition(token_id) ==
    /\ posCommands < MaxPositionCommands
    /\ posCommands' = posCommands + 1
    /\ lastCommand' = Before("add", token_id)
    /\ \E position_info \in BOOLEAN :
         IF ~position_info \/ AlreadyMonitored(active_positions, token_id)
         THEN UNCHANGED <<active_positions, monitored, position_metrics, passList>>
         ELSE /\ active_positions' = Append(active_positions, token_id)
              /\ passList' = IF passList # << >> /\ passList.live
                             THEN [passList EXCEPT !.ids = Append(@, token_id)]
                             ELSE passList
              /\ monitored' = monitored \cup {token_id}
              /\ position_metrics' = position_metrics \cup {token_id}
    /\ PositionFrame

\* remove_position: the attribute is bound to a new list without the id, and
\* the rebalancer drops the id from both of its dictionaries
RemoveFromMonitoring(token_id) ==
    /\ posCommands < MaxPositionCommands
    /\ posCommands' = posCommands + 1
    /\ lastCommand' = Before("remove", token_id)
    /\ active_positions' = WithoutPosition(active_positions, token_id)
    /\ passList' = IF passList # << >> THEN [passList EXCEPT !.live = FALSE] ELSE passList
    /\ monitored' = monitored \ {token_id}
    /\ position_metrics' = position_metrics \ {token_id}
    /\ PositionFrame

\* _main_loop: "for position_data in self.active_positions:" takes the list
BeginPass ==
    /\ passList = << >>
    /\ passList' = [ids |-> active_positions, visited |-> 0, live |-> TRUE]
    /\ UNCHANGED <<active_positions, monitored, position_metrics, lastCommand, posCommands>>
    /\ PositionFrame

\* The pass visits the next position of its list: monitor_and_rebalance_position
\* analyses it, and an analysis that gets the range status and the position
\* writes position_metrics[token_id]
VisitPosition ==
    /\ passList # << >>
    /\ passList.visited < Len(passList.ids)
    /\ passList' = [passList EXCEPT !.visited = @ + 1]
    /\ \E analysed \in BOOLEAN :
         position_metrics' = IF analysed
                             THEN position_metrics \cup {passList.ids[passList.visited + 1]}
                             ELSE position_metrics
    /\ UNCHANGED <<active_positions, monitored, lastCommand, posCommands>>
    /\ PositionFrame

\* The list is exhausted: the pass ends, the thread sleeps
EndPass ==
    /\ passList # << >>
    /\ passList.visited = Len(passList.ids)
    /\ passList' = << >>
    /\ UNCHANGED <<active_positions, monitored, position_metrics, lastCommand, posCommands>>
    /\ PositionFrame

PositionNext ==
    \/ \E token_id \in TokenIds : AddPosition(token_id)
    \/ \E token_id \in TokenIds : RemoveFromMonitoring(token_id)
    \/ BeginPass
    \/ VisitPosition
    \/ EndPass

PositionSpec == PositionInit /\ [][PositionNext]_vars

-----------------------------------------------------------------------------
(* NonceSpec: transactions built and sent from two threads through the one  *)
(* WalletManager: _get_next_nonce statement by statement, then the send.    *)
(* No lock is taken.                                                        *)

\* _get_next_nonce calls in one behaviour
MaxNonceCalls == 3

NonceThreads == {"main", "operator"}

\* A thread that is not sending
SenderIdle == [pc |-> "idle", current_nonce |-> 0, next_nonce |-> 0]

\* "if self.last_nonce is not None: next_nonce = max(current_nonce,
\* self.last_nonce + 1) else: next_nonce = current_nonce"
NextNonce(current_nonce, last) ==
    IF last # << >> THEN Max(current_nonce, last[1] + 1) ELSE current_nonce

\* A wallet just connected (last_nonce = None) on an account with no
\* transaction in flight
NonceInit ==
    /\ last_nonce = << >>
    /\ nPending = 0
    /\ nLatest = 0
    /\ nThread = [t \in NonceThreads |-> SenderIdle]
    /\ nSubmitted = << >>
    /\ nIssued = << >>
    /\ nResets = 0
    /\ nCalls = 0
    /\ RetryIdle
    /\ PlanIdle
    /\ MonitorIdle
    /\ ThreadIdle
    /\ LoopIdle
    /\ HistoryIdle
    /\ AnalysisIdle
    /\ PriceIdle
    /\ WatchIdle
    /\ PositionIdle

NonceFrame == UNCHANGED <<retryVars, planVars, monitorVars, threadVars, loopVars, historyVars, analysisVars, priceVars, watchVars, positionVars>>

\* "current_nonce = self.w3.eth.get_transaction_count(address, 'pending')";
\* when it raises, "return self.w3.eth.get_transaction_count(address)", the
\* count of mined transactions, and last_nonce is left alone
FetchCount(t) ==
    /\ nThread[t].pc = "idle"
    /\ nCalls < MaxNonceCalls
    /\ nCalls' = nCalls + 1
    /\ \E answered \in BOOLEAN :
         /\ nThread' = [nThread EXCEPT ![t] =
                           IF answered
                           THEN [SenderIdle EXCEPT !.pc = "fetched", !.current_nonce = nPending]
                           ELSE [SenderIdle EXCEPT !.pc = "built", !.next_nonce = nLatest]]
         /\ nIssued' = IF answered THEN nIssued ELSE Append(nIssued, <<nLatest, nResets>>)
    /\ UNCHANGED <<last_nonce, nPending, nLatest, nSubmitted, nResets>>
    /\ NonceFrame

\* the if / else that computes next_nonce from self.last_nonce
ComputeNext(t) ==
    /\ nThread[t].pc = "fetched"
    /\ nThread' = [nThread EXCEPT ![t].pc = "computed",
                                  ![t].next_nonce = NextNonce(nThread[t].current_nonce, last_nonce)]
    /\ UNCHANGED <<last_nonce, nPending, nLatest, nSubmitted, nIssued, nResets, nCalls>>
    /\ NonceFrame

\* "self.last_nonce = next_nonce", and the return: the transaction is built
StoreLast(t) ==
    /\ nThread[t].pc = "computed"
    /\ last_nonce' = <<nThread[t].next_nonce>>
    /\ nThread' = [nThread EXCEPT ![t].pc = "built"]
    /\ nIssued' = Append(nIssued, <<nThread[t].next_nonce, nResets>>)
    /\ UNCHANGED <<nPending, nLatest, nSubmitted, nResets, nCalls>>
    /\ NonceFrame

\* send_transaction: the signed transaction goes to the node, which takes it
\* (never with the nonce of a mined transaction; it counts as pending when its
\* nonce is the next one) or answers with an error ("self.last_nonce = None")
SendTransaction(t) ==
    /\ nThread[t].pc = "built"
    /\ \E taken \in BOOLEAN :
         /\ taken => nThread[t].next_nonce >= nLatest
         /\ nSubmitted' = IF taken THEN Append(nSubmitted, nThread[t].next_nonce)
                          ELSE nSubmitted
         /\ nPending' = IF taken /\ nThread[t].next_nonce = nPending
                        THEN nPending + 1 ELSE nPending
         /\ last_nonce' = IF taken THEN last_nonce ELSE << >>
         /\ nResets' = IF taken THEN nResets ELSE nResets + 1
    /\ nThread' = [nThread EXCEPT ![t] = SenderIdle]
    /\ UNCHANGED <<nLatest, nIssued, nCalls>>
    /\ NonceFrame

\* The chain mines the oldest pending transaction
MineTransaction ==
    /\ nLatest < nPending
    /\ nLatest' = nLatest + 1
    /\ UNCHANGED <<last_nonce, nPending, nThread, nSubmitted, nIssued, nResets, nCalls>>
    /\ NonceFrame

NonceNext ==
    \/ \E t \in NonceThreads :
          \/ FetchCount(t)
          \/ ComputeNext(t)
          \/ StoreLast(t)
          \/ SendTransaction(t)
    \/ MineTransaction

NonceSpec == NonceInit /\ [][NonceNext]_vars

-----------------------------------------------------------------------------
(* PriceSpec: get_pool_price called from two threads on the one             *)
(* UniswapV3Manager, statement by statement.  No lock is taken.  The main   *)
(* loop thread reads the pool in every analysis and plan; the command       *)
(* thread reads it in status, balance and create; the price monitor's       *)
(* thread reads it only through registered alerts.                          *)

\* "if len(self.price_history) > 100"
PRICE_HISTORY_CAP == 100

\* slot0 reads in one behaviour
MaxPriceReads == 3

PriceReaders == {"main", "operator"}

\* A thread outside get_pool_price
ReaderIdle == [pc |-> "idle", point |-> 0, live |-> TRUE, slice |-> << >>]

\* "self.price_history[-100:]"
KeepRecentPrices(history) ==
    IF Len(history) > PRICE_HISTORY_CAP
    THEN SubSeq(history, Len(history) - PRICE_HISTORY_CAP + 1, Len(history))
    ELSE history

\* The history after no read, after 99 reads and after 100 or more; a point
\* is named by the number of its append
PriceInit ==
    /\ \E n \in {0, PRICE_HISTORY_CAP - 1, PRICE_HISTORY_CAP} :
           price_history = [k \in 1..n |-> k]
    /\ phAppended = price_history
    /\ phReader = [t \in PriceReaders |-> ReaderIdle]
    /\ phReads = 0
    /\ RetryIdle
    /\ PlanIdle
    /\ MonitorIdle
    /\ ThreadIdle
    /\ LoopIdle
    /\ HistoryIdle
    /\ AnalysisIdle
    /\ NonceIdle
    /\ WatchIdle
    /\ PositionIdle

PriceFrame == UNCHANGED <<retryVars, planVars, monitorVars, threadVars, loopVars, historyVars, analysisVars, nonceVars, watchVars, positionVars>>

\* slot0().call() and the checks of the price: None is returned when the call
\* raises or the price is invalid, else the point to store is at hand
ReadSlot0(t) ==
    /\ phReader[t].pc = "idle"
    /\ phReads < MaxPriceReads
    /\ phReads' = phReads + 1
    /\ \E ok \in BOOLEAN :
         phReader' = [phReader EXCEPT ![t] =
                         IF ok THEN [ReaderIdle EXCEPT !.pc = "read",
                                                       !.point = PRICE_HISTORY_CAP + phReads + 1]
                         ELSE ReaderIdle]
    /\ UNCHANGED <<price_history, phAppended>>
    /\ PriceFrame

\* "self.price_history.append(": the list is looked up before the point is
\* built (the point's timestamp is a call of time.time())
LoadHistory(t) ==
    /\ phReader[t].pc = "read"
    /\ phReader' = [phReader EXCEPT ![t].pc = "loaded", ![t].live = TRUE]
    /\ UNCHANGED <<price_history, phAppended, phReads>>
    /\ PriceFrame

\* "...append({...})": the point goes to the list that was looked up, which is
\* the attribute's list unless another thread has replaced it since
AppendPoint(t) ==
    /\ phReader[t].pc = "loaded"
    /\ price_history' = IF phReader[t].live
                        THEN Append(price_history, phReader[t].point)
                        ELSE price_history
    /\ phAppended' = Append(phAppended, phReader[t].point)
    /\ phReader' = [phReader EXCEPT ![t].pc = "appended"]
    /\ UNCHANGED phReads
    /\ PriceFrame

\* "if len(self.price_history) > 100:", else the return
TestLength(t) ==
    /\ phReader[t].pc = "appended"
    /\ phReader' = [phReader EXCEPT ![t] =
                       IF Len(price_history) > PRICE_HISTORY_CAP
                       THEN [@ EXCEPT !.pc = "slicing"]
                       ELSE ReaderIdle]
    /\ UNCHANGED <<price_history, phAppended, phReads>>
    /\ PriceFrame

\* "self.price_history[-100:]": a new list
SliceHistory(t) ==
    /\ phReader[t].pc = "slicing"
    /\ phReader' = [phReader EXCEPT ![t].pc = "sliced",
                                    ![t].slice = KeepRecentPrices(price_history)]
    /\ UNCHANGED <<price_history, phAppended, phReads>>
    /\ PriceFrame

\* "self.price_history = ...": the attribute refers to the new list, and a
\* thread that had looked the old one up holds a list nobody reads; then the
\* return
StoreHistory(t) ==
    /\ phReader[t].pc = "sliced"
    /\ price_history' = phReader[t].slice
    /\ phReader' = [u \in PriceReaders |->
                       IF u = t THEN ReaderIdle
                       ELSE IF phReader[u].pc = "loaded" THEN [phReader[u] EXCEPT !.live = FALSE]
                       ELSE phReader[u]]
    /\ UNCHANGED <<phAppended, phReads>>
    /\ PriceFrame

PriceNext ==
    \E t \in PriceReaders :
        \/ ReadSlot0(t)
        \/ LoadHistory(t)
        \/ AppendPoint(t)
        \/ TestLength(t)
        \/ SliceHistory(t)
        \/ StoreHistory(t)

PriceSpec == PriceInit /\ [][PriceNext]_vars

-----------------------------------------------------------------------------
(* LoopSpec: the main loop thread, one plan step at a time, with the stop   *)
(* flag and the exit of the process                                         *)

\* What can go wrong while a position is analysed: a chain read fails
\* (check_position_range_status or get_position_info answers None), or an
\* exception is raised inside analyze_position_health, whose except clause
\* answers None.  A failure while the plan is built leaves a shorter plan.
EvalFaults == {"none", "read_fails", "analysis_raises"}

\* ... and while a plan step runs, besides a failed or timed-out transaction:
\* an exception inside _execute_single_action, whose except clause answers False
StepFaults == {"none", "action_raises"}

\* The analyses the positions can get
LoopAnalyses ==
    {AnalyzePositionHealth(TRUE, t, PositionRange[1], PositionRange[2], liq, pct, 0) :
        t \in PoolTicks, liq \in {0, 1}, pct \in {50, 80}}

AfterPositionStopOnFailure(result, index) == IF result = "false" THEN "ended" ELSE IF index < NumPositions THEN "position" ELSE "sleeping"

\* Where the main loop goes once monitor_and_rebalance_position has returned:
\* to the next position of the for loop, or to the end of the pass (save,
\* status, sleep), whatever the result
AfterPosition(result, index) == IF index < NumPositions THEN "position" ELSE "sleeping"

LoopInit ==
    /\ lRunning = TRUE
    /\ lPc = "sleeping"
    /\ lIndex = 0
    /\ lLiquidity = 0
    /\ lPlan = << >>
    /\ lStep = 0
    /\ lInStep = FALSE
    /\ lReturn = "none"
    /\ lCycles = 0
    /\ RetryIdle
    /\ PlanIdle
    /\ MonitorIdle
    /\ ThreadIdle
    /\ HistoryIdle
    /\ AnalysisIdle
    /\ PriceIdle
    /\ NonceIdle
    /\ WatchIdle
    /\ PositionIdle

\* "while self.running:" holds, the pass over active_positions begins
StartCycle ==
    /\ lPc = "sleeping"
    /\ lRunning
    /\ lCycles < MaxLoopCycles
    /\ lCycles' = lCycles + 1
    /\ lIndex' = 1
    /\ lPc' = "position"
    /\ UNCHANGED <<lRunning, lLiquidity, lPlan, lStep, lInStep, lReturn>>
    /\ UNCHANGED <<retryVars, planVars, monitorVars, threadVars, historyVars, analysisVars, priceVars, nonceVars, watchVars, positionVars>>

\* "while self.running:" fails: the loop is over
LoopEnds ==
    /\ lPc = "sleeping"
    /\ ~lRunning
    /\ lPc' = "ended"
    /\ UNCHANGED <<lRunning, lIndex, lLiquidity, lPlan, lStep, lInStep, lReturn, lCycles>>
    /\ UNCHANGED <<retryVars, planVars, monitorVars, threadVars, historyVars, analysisVars, priceVars, nonceVars, watchVars, positionVars>>

\* monitor_and_rebalance_position has ended with this result: the for loop
\* goes to the next position, or the pass ends
FinishPosition(result) ==
    /\ lReturn' = result
    /\ lPlan' = << >>
    /\ lStep' = 0
    /\ lInStep' = FALSE
    /\ lPc' = AfterPosition(result, lIndex)
    /\ lIndex' = IF lIndex < NumPositions THEN lIndex + 1 ELSE 0
    /\ UNCHANGED <<lRunning, lLiquidity, lCycles>>

\* monitor_and_rebalance_position(token_id) up to the call of
\* execute_rebalance_plan
EvaluatePosition ==
    /\ lPc = "position"
    /\ \E fault \in EvalFaults, analysis \in LoopAnalyses, lk \in HandlerLookups :
         IF fault \in {"read_fails", "analysis_raises"}
         THEN FinishPosition("false")                  \* "if not analysis: return False"
         ELSE IF ~analysis.needs_rebalance
         THEN FinishPosition("true")
         ELSE /\ lPlan' = SortByPriority(CreateRebalancePlan(analysis.urgency,
                              analysis.liquidity, POOL_FEE, lk[1], lk[2], lk[3]))
              /\ lLiquidity' = analysis.liquidity
              /\ lStep' = 1
              /\ lPc' = "executing"
              /\ UNCHANGED <<lRunning, lIndex, lInStep, lReturn, lCycles>>
    /\ UNCHANGED <<retryVars, planVars, monitorVars, threadVars, historyVars, analysisVars, priceVars, nonceVars, watchVars, positionVars>>

\* execute_rebalance_plan: the for loop calls _execute_single_action(action)
BeginStep ==
    /\ lPc = "executing"
    /\ ~lInStep
    /\ lInStep' = TRUE
    /\ UNCHANGED <<lRunning, lPc, lIndex, lLiquidity, lPlan, lStep, lReturn, lCycles>>
    /\ UNCHANGED <<retryVars, planVars, monitorVars, threadVars, historyVars, analysisVars, priceVars, nonceVars, watchVars, positionVars>>

\* _execute_single_action returns; the loop aborts, goes on, or is through
EndStep ==
    /\ lPc = "executing"
    /\ lInStep
    /\ \E fault \in StepFaults, run \in AnswerRuns(lPlan[lStep], lLiquidity, POOL_FEE) :
         LET ok == fault = "none" /\ run.ok
         IN  IF ~ok /\ AbortsOnFailure(lPlan[lStep])
             THEN FinishPosition("false")
             ELSE IF lStep = Len(lPlan)
             THEN FinishPosition("true")
             ELSE /\ lStep' = lStep + 1
                  /\ lInStep' = FALSE
                  /\ UNCHANGED <<lRunning, lPc, lIndex, lLiquidity, lPlan, lReturn, lCycles>>
    /\ UNCHANGED <<retryVars, planVars, monitorVars, threadVars, historyVars, analysisVars, priceVars, nonceVars, watchVars, positionVars>>

\* stop(), from the 'stop' command or from _signal_handler: the flag is cleared
StopRequested ==
    /\ lRunning
    /\ lRunning' = FALSE
    /\ UNCHANGED <<lPc, lIndex, lLiquidity, lPlan, lStep, lInStep, lReturn, lCycles>>
    /\ UNCHANGED <<retryVars, planVars, monitorVars, threadVars, historyVars, analysisVars, priceVars, nonceVars, watchVars, positionVars>>

\* stop() has returned and the process exits (start() returns, or
\* sys.exit(0)): the main loop thread is a daemon thread, nobody joins it
ProcessExit ==
    /\ ~lRunning
    /\ lPc \notin {"ended", "dead"}
    /\ lPc' = "dead"
    /\ lInStep' = FALSE
    /\ UNCHANGED <<lRunning, lIndex, lLiquidity, lPlan, lStep, lReturn, lCycles>>
    /\ UNCHANGED <<retryVars, planVars, monitorVars, threadVars, historyVars, analysisVars, priceVars, nonceVars, watchVars, positionVars>>

\* The steps of the main loop thread itself
MainLoopStep == StartCycle \/ LoopEnds \/ EvaluatePosition \/ BeginStep \/ EndStep

LoopNext ==
    \/ StartCycle
    \/ LoopEnds
    \/ EvaluatePosition
    \/ BeginStep
    \/ EndStep
    \/ StopRequested
    \/ ProcessExit

LoopSpec == LoopInit /\ [][LoopNext]_vars

-----------------------------------------------------------------------------
(* Claims about the main loop (LoopSpec) *)

\* C11: a failure while a position is processed ends
\* monitor_and_rebalance_position with a result, true or false, and while the
\* stop flag is not set the loop is alive and has a next step: the next
\* position, or the next pass.
C11_FailuresContained ==
    /\ lReturn \in {"none", "true", "false"}
    /\ lRunning => lPc \notin {"ended", "dead"}
    /\ (lRunning /\ ~(lPc = "sleeping" /\ lCycles = MaxLoopCycles)) => ENABLED MainLoopStep

\* The first position's processing failed and the loop, still running, is at
\* the second position in its last pass
C11_Witness ==
    /\ lRunning
    /\ lReturn = "false"
    /\ lPc = "position"
    /\ lIndex = 2
    /\ lCycles = MaxLoopCycles

\* C12: once the stop has been requested, the main loop thread starts no
\* further plan step and no further position evaluation (a step in flight
\* runs to its end).
C12_NoNewWorkAfterStop == [][~lRunning => ~(BeginStep \/ EvaluatePosition)]_vars

\* C13: the shutdown does not complete while a mutating action is in flight:
\* the process exits only when no plan step is being executed.
C13_ShutdownWaitsForAction == [][ProcessExit => ~lInStep]_vars

-----------------------------------------------------------------------------
(* Claims about the rebalance history (HistorySpec) *)

\* The calls whose analysis asked for a rebalance, in the order they were made
Attempts == SelectSeq(hCalls, LAMBDA c : c.needed)

\* C14: after any sequence of monitor_and_rebalance_position calls,
\* rebalance_history holds one entry for each of the most recent min(n, 50)
\* calls whose analysis asked for a rebalance, in the order of the calls, and
\* nothing else.
C14_HistoryIsRecentAttempts ==
    LET n == Len(Attempts)
        m == Min(n, HISTORY_CAP)
    IN  /\ Len(rebalance_history) = m
        /\ \A i \in 1..m : rebalance_history[i].timestamp = Attempts[n - m + i].timestamp

\* More than 50 attempts were made, some succeeded and some failed, and some
\* call needed no rebalance
C14_Witness ==
    /\ Len(Attempts) > HISTORY_CAP
    /\ \E i \in 1..Len(hCalls) : ~hCalls[i].needed
    /\ \E i \in 1..Len(rebalance_history) : rebalance_history[i].success
    /\ \E i \in 1..Len(rebalance_history) : ~rebalance_history[i].success

\* The pool stands at one tick during the whole run
PriceUnchanged == hPattern # << >> /\ hPattern.odd.tick = hPattern.even.tick

\* The i-th recorded rebalance ran a plan with create_position and every
\* action of it succeeded
RebalancedAndReopened(i) ==
    histPlan[i].complete /\ histPlan[i].allSucceeded /\ histPlan[i].returned

\* C26: with the pool price unchanged, no call made after a rebalance whose
\* plan succeeded, create_position included, asks for a rebalance again.
C26_RebalanceSettles ==
    PriceUnchanged =>
        \A i \in 1..Len(rebalance_history) :
            RebalancedAndReopened(i) =>
                \A k \in 1..Len(hCalls) :
                    hCalls[k].timestamp > rebalance_history[i].timestamp => ~hCalls[k].needed

-----------------------------------------------------------------------------
(* Claims about the position analysis (AnalysisSpec) *)

\* analyze_position_health has answered
Analyzed == aOut # << >> /\ aIn.kind = "analyze" /\ aOut.ok

\* The position as the chain has it
TickInRange == aIn.lower <= aIn.tick /\ aIn.tick <= aIn.upper

PositionRatio == <<Min(aIn.tick - aIn.lower, aIn.upper - aIn.tick), aIn.upper - aIn.lower>>

RatioUnderThreshold == FracLess(PositionRatio, <<aIn.pct, 100>>)

\* C15: a pool tick outside [tickLower, tickUpper] gives needs_rebalance with
\* urgency HIGH, whatever the liquidity, the threshold and the volatility.
C15_OutOfRangeIsHigh ==
    (Analyzed /\ ~TickInRange) => (aOut.needs_rebalance /\ aOut.urgency = "HIGH")

C15_Witness ==
    /\ Analyzed
    /\ aIn.tick > aIn.upper
    /\ aIn.liquidity > 0
    /\ aIn.volatility > 50
    /\ aOut.needs_rebalance
    /\ aOut.urgency = "HIGH"

\* C16: a position with liquidity 0 gives needs_rebalance with urgency HIGH,
\* in range or not and whatever its ratio.
C16_ZeroLiquidityIsHigh ==
    (Analyzed /\ aIn.liquidity = 0) => (aOut.needs_rebalance /\ aOut.urgency = "HIGH")

\* C17: in range, with liquidity, and position_ratio below the threshold
\* (config.rebalance_threshold / 100) gives needs_rebalance with urgency MEDIUM.
C17_NearEdgeIsMedium ==
    (Analyzed /\ TickInRange /\ aIn.liquidity > 0 /\ RatioUnderThreshold)
        => (aOut.needs_rebalance /\ aOut.urgency = "MEDIUM")

\* The ratio is 0.05 and the threshold 0.8
C17_Witness ==
    /\ Analyzed
    /\ TickInRange
    /\ aIn.liquidity > 0
    /\ 20 * PositionRatio[1] = PositionRatio[2]
    /\ aIn.pct = 80
    /\ aOut.needs_rebalance
    /\ aOut.urgency = "MEDIUM"

\* C18: in range, with liquidity, position_ratio not below the threshold and
\* the range utilization computed for the position, 1 - 2 * position_ratio,
\* below 0.3 gives needs_rebalance with urgency LOW.
C18_LowUtilizationIsLow ==
    (/\ Analyzed /\ TickInRange /\ aIn.liquidity > 0 /\ ~RatioUnderThreshold
     /\ FracLess(aOut.range_status.range_info.range_utilization, <<3, 10>>))
        => (aOut.needs_rebalance /\ aOut.urgency = "LOW")

DefaultThreshold == aIn.pct = 80

\* The pool's tick is the middle of the position's range: position_ratio 0.5
TickAtCentre == 2 * aIn.tick = aIn.lower + aIn.upper

\* C27: with the default threshold (0.8), a position in range, with
\* liquidity, whose tick is exactly at the centre of its range is reported
\* with needs_rebalance false.
C27_CentredPositionIsHealthy ==
    (Analyzed /\ DefaultThreshold /\ TickInRange /\ aIn.liquidity > 0 /\ TickAtCentre)
        => ~aOut.needs_rebalance

\* C20: the health score is 0 when the position is out of range or has no
\* liquidity, and lies in [0, 100] for every input.
C20_HealthScoreBounded ==
    aOut # << >> =>
        LET score == aOut.health_score
        IN  /\ score[2] > 0
            /\ 0 <= score[1]
            /\ score[1] <= 100 * score[2]
            /\ (~aOut.range_status.in_range \/ aIn.liquidity = 0) => score[1] = 0

\* A score that would be 120 without the bound: ratio 1 and utilization 1
C20_Witness ==
    /\ aOut # << >>
    /\ aIn.kind = "score"
    /\ aIn.liquidity > 0
    /\ aIn.range_status.in_range
    /\ aIn.range_status.ratioNum = aIn.range_status.ratioDen
    /\ Get(aIn.range_status, "range_utilization", <<1, 2>>) = <<1, 1>>
    /\ aOut.health_score = <<100, 1>>

-----------------------------------------------------------------------------
(* Claims about the range status (RangeSpec) *)

\* The fraction lies in [0, 1]
InUnitInterval(frac) == 0 <= frac[1] /\ frac[1] <= frac[2]

\* C36: every range status has position_ratio in [0, 1], range_utilization in
\* [0, 1] and tick_deviation >= 0, for a pool tick inside the range and for one
\* outside it, position_ratio being
\* min(tick - lower, upper - tick) / (upper - lower), and 0 for an empty range.
C36_RangeStatusBounded ==
    (aIn.kind = "range" /\ aOut # << >>) =>
        /\ InUnitInterval(<<aOut.status.ratioNum, aOut.status.ratioDen>>)
        /\ InUnitInterval(aOut.status.range_utilization)
        /\ aOut.tick_deviation[1] >= 0
        /\ aOut.status.ratioNum * (IF aIn.range[2] = aIn.range[1] THEN 1
                                   ELSE aIn.range[2] - aIn.range[1])
             = aOut.status.ratioDen * (IF aIn.range[2] = aIn.range[1] THEN 0
                                       ELSE Min(aIn.tick - aIn.range[1],
                                                aIn.range[2] - aIn.tick))

-----------------------------------------------------------------------------
(* Claims about the tick range (TickRangeSpec) *)

\* calculate_tick_range has returned a range
RangeReturned == aOut # << >> /\ aIn.kind = "tick_range" /\ aOut.range # << >>

\* The raw bounds are less than the minimum width apart once rounded
Widened ==
    LET up0 == TruncDiv(aIn.priceLog + aIn.widthLog, LogResolution)
        lo0 == TruncDiv(aIn.priceLog - aIn.widthLog, LogResolution)
    IN  ((up0 \div aIn.spacing) + 1) * aIn.spacing - (lo0 \div aIn.spacing) * aIn.spacing
            < (IF aIn.spacing = 1 THEN 30 ELSE 2 * aIn.spacing)

\* C21: a range (lower, upper) returned by calculate_tick_range has
\* lower < upper, both multiples of the spacing, both in [-887272, 887272],
\* and is at least 30 ticks wide for spacing 1 and 2 * spacing otherwise.
C21_TickRangeWellFormed ==
    RangeReturned =>
        LET lower == aOut.range[1]
            upper == aOut.range[2]
        IN  /\ lower < upper
            /\ lower % aIn.spacing = 0
            /\ upper % aIn.spacing = 0
            /\ -887272 <= lower /\ upper <= 887272
            /\ upper - lower >= (IF aIn.spacing = 1 THEN 30 ELSE 2 * aIn.spacing)

\* A range of the finest tier that had to be widened around the current tick
C21_Witness ==
    /\ RangeReturned
    /\ aIn.spacing = 1
    /\ Widened
    /\ aOut.range[2] - aOut.range[1] >= 30

\* tick is the tick of the price: log(price) / log(1.0001) with its fraction
\* dropped
IsTickOf(tick, priceLog) ==
    IF priceLog >= 0
    THEN tick * LogResolution <= priceLog /\ priceLog < (tick + 1) * LogResolution
    ELSE (tick - 1) * LogResolution < priceLog /\ priceLog <= tick * LogResolution

\* C37: a range (lower, upper) returned by calculate_tick_range contains the
\* tick of the current price, lower <= centre <= upper, whether the range was
\* taken from the requested width or re-centred to the minimum width, for
\* every spacing.
C37_RangeContainsCentre ==
    RangeReturned =>
        \E centre \in aOut.range[1]..aOut.range[2] : IsTickOf(centre, aIn.priceLog)

\* A range of the 0.3% tier for a price at tick -121, re-centred to
\* [-240, -120], and so away from tick 0
C37_Witness ==
    /\ RangeReturned
    /\ Widened
    /\ aIn.spacing = 60
    /\ IsTickOf(-121, aIn.priceLog)
    /\ aOut.range = <<-240, -120>>

-----------------------------------------------------------------------------
(* Claims about the range width (DynamicRangeSpec) *)

\* C22: calculate_dynamic_range returns a value within
\* [min_price_range_percent, max_price_range_percent] for the methods
\* volatility_based and adaptive, and exactly price_range_percent for fixed.
C22_DynamicRangeBounded ==
    (aOut # << >> /\ aIn.kind = "dynamic_range") =>
        /\ aOut.config.range_calculation_method \in {"volatility_based", "adaptive"}
              => /\ aOut.config.min_price_range_percent <= aOut.range
                 /\ aOut.range <= aOut.config.max_price_range_percent
        /\ aOut.config.range_calculation_method = "fixed"
              => aOut.range = aOut.config.price_range_percent

\* An adaptive range that the recent prices would push above the maximum
C22_Witness ==
    /\ aOut # << >>
    /\ aIn.kind = "dynamic_range"
    /\ aIn.priceValid
    /\ aOut.config.dynamic_range
    /\ aOut.config.range_calculation_method = "adaptive"
    /\ aIn.recent # << >>
    /\ aIn.recent[1] + aOut.config.range_buffer_percent > aOut.config.max_price_range_percent
    /\ aOut.range = aOut.config.max_price_range_percent

\* The call took the adaptive method
AdaptiveCall ==
    /\ aOut # << >>
    /\ aIn.kind = "dynamic_range"
    /\ aIn.priceValid
    /\ aOut.config.dynamic_range
    /\ aOut.config.range_calculation_method = "adaptive"

-----------------------------------------------------------------------------
(* Claims about balancing the portfolio (BalanceSpec) *)

\* The call compared the amounts with their targets
Balanced == aIn # << >> /\ aIn.kind = "balance" /\ aOut # << >> /\ aOut.compared

Abs(n) == IF n >= 0 THEN n ELSE -n

\* token0_diff = target_token0 - balance0 and token1_diff = target_token1 -
\* balance1 in wei, as fractions, from the amounts the call read
Token0Diff ==
    LET total == aIn.balance1 * aIn.price[2] + aIn.balance0 * aIn.price[1]
    IN  <<total * (100 - aIn.target) - 100 * aIn.balance0 * aIn.price[1], 100 * aIn.price[1]>>

Token1Diff ==
    LET total == aIn.balance1 * aIn.price[2] + aIn.balance0 * aIn.price[1]
    IN  <<total * aIn.target - 100 * aIn.balance1 * aIn.price[2], 100 * aIn.price[2]>>

WithinThreshold(diff) == Abs(diff[1]) < SwapThresholdWei * diff[2]

RECURSIVE Gcd(_, _)
Gcd(a, b) == IF b = 0 THEN a ELSE Gcd(b, a % b)

\* a fraction with a numerator >= 0, in lowest terms
Lowest(f) == LET g == Gcd(f[1], f[2]) IN <<f[1] \div g, f[2] \div g>>

\* amount = 0.80 * |diff|
IsEightyPercentOf(amount, diff) ==
    LET a == Lowest(amount)
        d == Lowest(<<Abs(diff[1]), diff[2]>>)
    IN  Lowest(<<5 * a[1], 4 * a[2]>>) = d

SwapTransactions(calls) == {k \in 1..Len(calls) : calls[k].kind = "swap"}

\* C23 (amended): a call that compared the amounts asks for no swap and
\* submits nothing when both differences are below the threshold; otherwise it
\* asks for exactly one swap, selling the token held above its target for the
\* token held below it, of 0.80 times the surplus of the token sold, and the
\* transactions it submits are that swap's (at most three attempts).
C23_SwapSellsSurplus ==
    Balanced =>
        IF WithinThreshold(Token0Diff) /\ WithinThreshold(Token1Diff)
        THEN aOut.swap = << >> /\ aOut.run.calls = << >> /\ aOut.run.ok
        ELSE /\ aOut.swap # << >>
             /\ aOut.swap.token_in # aOut.swap.token_out
             /\ LET sold   == IF aOut.swap.token_in = "token0" THEN Token0Diff ELSE Token1Diff
                    bought == IF aOut.swap.token_out = "token0" THEN Token0Diff ELSE Token1Diff
                IN  /\ sold[1] < 0
                    /\ bought[1] > 0
                    /\ IsEightyPercentOf(aOut.swap.amount, sold)
             /\ Cardinality(SwapTransactions(aOut.run.calls)) <= 3
             /\ aOut.run.ok => Cardinality({k \in SwapTransactions(aOut.run.calls) :
                                               aOut.run.calls[k].ok}) = 1

\* C23 as stated: the amount of the swap is 0.80 times the deficit, the
\* difference of the token bought.
C23_SwapAmountIsDeficit ==
    (Balanced /\ aOut.swap # << >>) =>
        IsEightyPercentOf(aOut.swap.amount,
                          IF aOut.swap.token_out = "token0" THEN Token0Diff ELSE Token1Diff)

\* 1000 token0 and no token1 at price 1.0 with target 0.5: 400 token0 are sold
\* for token1, in one swap transaction.
C23_Witness ==
    /\ Balanced
    /\ aOut.swap # << >>
    /\ aIn.balance0 = 1000 * 10 ^ TokenDecimals
    /\ aIn.balance1 = 0
    /\ aIn.price = <<1, 1>>
    /\ aIn.target = 50
    /\ aOut.swap.token_in = "token0"
    /\ aOut.swap.token_out = "token1"
    /\ aOut.swap.amount[1] = 400 * 10 ^ TokenDecimals * aOut.swap.amount[2]
    /\ aOut.run.ok
    /\ Cardinality(SwapTransactions(aOut.run.calls)) = 1

-----------------------------------------------------------------------------
(* Claims about the amount sold (SellSpec) *)

\* The wallet's balance of the token the swap sells, in wei
SoldBalance == IF aOut.swap.token_in = "token0" THEN aIn.balance0 ELSE aIn.balance1

\* _execute_celo_optimized_swap returned at its balance check: nothing was
\* approved and no attempt was made
RejectedForBalance == ~aOut.run.ok /\ aOut.run.calls = << >> /\ aOut.run.attempts = 0

\* C38: for balances >= 0, a price > 0 and a target ratio in [0, 1], the amount
\* auto_balance_portfolio asks to swap is at most the wallet's balance of the
\* token sold, so the swap's balance check lets it pass.
C38_AmountWithinBalance ==
    (Balanced /\ aOut.swap # << >>) =>
        /\ (aOut.swap.amount[1] + aOut.swap.amount[2] - 1) \div aOut.swap.amount[2]
              <= SoldBalance
        /\ ~RejectedForBalance

\* All of the portfolio is to be held in token0 (target ratio 0) and the wallet
\* holds 1000 token1 only: 800 token1 are sold, and the swap is attempted
C38_Witness ==
    /\ Balanced
    /\ aOut.swap # << >>
    /\ aIn.target = 0
    /\ aIn.balance0 = 0
    /\ aIn.balance1 = 1000 * 10 ^ TokenDecimals
    /\ aOut.swap.token_in = "token1"
    /\ Lowest(aOut.swap.amount) = <<800 * 10 ^ TokenDecimals, 1>>
    /\ aOut.run.attempts > 0

-----------------------------------------------------------------------------
(* Claims about the checks an action makes first (ActionSpec) *)

ActionReturned == aIn # << >> /\ aOut # << >>

\* The wallet holds less gas than config.min_gas_balance
GasBelowMinimum == aIn.gas < MIN_GAS_BALANCE

\* The swap met a balance of token_in below its amount: the balance of a
\* swap_tokens action, the balance of the token sold by auto_balance_portfolio
\* (read as 0 when the read fails)
BalanceBelowAmount ==
    \/ aIn.kind = "swap_tokens" /\ aIn.balance < aIn.amount
    \/ /\ aIn.kind = "balance"
       /\ aOut.swap # << >>
       /\ LET held == IF ~aIn.readOk THEN 0
                      ELSE IF aOut.swap.token_in = "token0" THEN aIn.balance0
                      ELSE aIn.balance1
          IN  held * aOut.swap.amount[2] < aOut.swap.amount[1]

-----------------------------------------------------------------------------
(* Claims about the swaps on the chain (SettlementSpec) *)

\* C30: of the transactions one swap action submits, at most one takes
\* effect on the chain.
C30_AtMostOneSwapOnChain ==
    (aIn # << >> /\ aIn.kind = "swap_attempts" /\ aOut # << >>) =>
        Cardinality(aOut.onChain) <= 1

-----------------------------------------------------------------------------
(* Claims about the monitored positions (PositionSpec) *)

\* C34: position_metrics holds an entry for exactly the token ids that are
\* monitored: the entry comes with the add, goes with the remove, and no
\* analysis brings it back.
C34_MetricsOnlyWhileMonitored == position_metrics = monitored

\* No token id is twice in the list
NoDuplicates(positions) ==
    \A j \in 1..Len(positions), k \in 1..Len(positions) :
        j # k => positions[j] # positions[k]

\* C35: after any add and remove commands the bot's list holds each token id at
\* most once and its ids are the keys of the rebalancer's active_positions; an
\* add of an id that was already monitored has left both as they were.
C35_ListsAgree ==
    /\ NoDuplicates(active_positions)
    /\ IdsOf(active_positions) = monitored
    /\ (/\ lastCommand # << >>
        /\ lastCommand.command = "add"
        /\ lastCommand.token_id \in lastCommand.monitored)
       => (active_positions = lastCommand.positions /\ monitored = lastCommand.monitored)

\* C35's case: an id was removed and added again, and an add of a monitored id
\* followed
C35_Witness ==
    /\ posCommands = 3
    /\ lastCommand.command = "add"
    /\ lastCommand.token_id \in lastCommand.monitored
    /\ active_positions = <<2, 1>>

-----------------------------------------------------------------------------
(* Claims about the price monitor's loops (WatchSpec) *)

\* C32: whatever start_monitoring and stop_monitoring calls were made, at most
\* one loop that was not asked to stop is alive (a start while monitoring is
\* active starts no second thread), and no loop that was asked to stop has
\* begun another pass since.
C32_AtMostOneLoop ==
    /\ Cardinality({i \in 1..Len(mLoops) : IsAlive(i) /\ ~mLoops[i].stopped}) <= 1
    /\ \A i \in 1..Len(mLoops) : ~mLoops[i].resumed

-----------------------------------------------------------------------------
(* Claims about the nonces (NonceSpec) *)

\* C31: the values _get_next_nonce returns between two resets of last_nonce
\* increase strictly, whichever threads call it, and no two transactions the
\* node took from the bot carry the same nonce.
C31_NoncesDistinct ==
    /\ \A j \in 1..Len(nIssued), k \in 1..Len(nIssued) :
           (j < k /\ nIssued[j][2] = nIssued[k][2]) => nIssued[j][1] < nIssued[k][1]
    /\ \A j \in 1..Len(nSubmitted), k \in 1..Len(nSubmitted) :
           j # k => nSubmitted[j] # nSubmitted[k]

-----------------------------------------------------------------------------
(* Claims about the price history (PriceSpec) *)

\* No thread is inside get_pool_price
ReadsCompleted == \A t \in DOMAIN phReader : phReader[t].pc = "idle"

\* C25: once the pool reads have completed, the price history is the most
\* recent points appended, at most 100 of them, in the order of their appends.
C25_HistoryHoldsRecentPoints ==
    (ReadsCompleted /\ phReads > 0) =>
        /\ Len(price_history) <= PRICE_HISTORY_CAP
        /\ price_history = KeepRecentPrices(phAppended)

-----------------------------------------------------------------------------
(* Claims about the threads (ThreadSpec) *)

\* Thread t has a transaction in flight: it is inside a wallet call whose
\* transaction was submitted and is confirmed when the call returns
InFlight(t) == tCall[t] # << >> /\ tCall[t][1].ok

\* C1: in every reachable state at most one blockchain-mutating call of the
\* wallet (approve, swap, mint, decreaseLiquidity, collect) is in flight,
\* whichever thread issues it: main loop, price alerts or operator commands.
C1_AtMostOneCallInFlight ==
    Cardinality({t \in Threads : InFlight(t)}) <= 1

\* C33: a step of the price-alert polling task leaves the price cache as it
\* was and issues no wallet call: the task only reads the shared price state.
C33_PollingTaskOnlyReads ==
    [][PriceMonitorLoop => UNCHANGED <<priceCached, tPending, tCall>>]_vars

-----------------------------------------------------------------------------
(* Claims about the retry loops (RetrySpec) *)

\* The loop of the call was entered: the pre-flight checks passed
RetryLoopEntered ==
    rPhase = "returned" /\ PreflightPasses(rKind, rAmount0, rBalance, rApproveOk)

\* C3: a call whose loop is entered and whose every attempt fails makes
\* exactly 3 attempts and returns False; a call never makes more than 3
\* attempts and always returns a boolean.
C3_AllAttemptsFailThenFalse ==
    /\ Len(rLog) <= 3
    /\ rPhase = "returned" => rResult \in {"true", "false"}
    /\ (RetryLoopEntered /\ \A k \in 1..Len(rLog) : ~rLog[k].ok)
          => (Len(rLog) = 3 /\ rResult = "false")

C3_Witness ==
    /\ RetryLoopEntered
    /\ rKind = "rebalancer_swap"
    /\ Len(rLog) = 3
    /\ \A k \in 1..3 : rLog[k].submitted /\ ~rLog[k].ok
    /\ rResult = "false"

\* C4: only the last attempt of a call can be a successful one, and then the
\* call returns True; every attempt but the first follows failed attempts only.
C4_FirstSuccessEndsLoop ==
    /\ \A k \in 1..Len(rLog) :
          /\ rLog[k].ok => (k = Len(rLog) /\ rResult = "true")
          /\ \A j \in 1..(k - 1) : ~rLog[j].ok
    /\ rResult = "true" => (Len(rLog) > 0 /\ rLog[Len(rLog)].ok)

C4_Witness ==
    /\ rPhase = "returned"
    /\ rKind = "fixer_mint"
    /\ Len(rLog) = 2
    /\ ~rLog[1].ok /\ rLog[2].ok
    /\ rResult = "true"

\* C5: attempt i runs with slippage 4 + 2i (rebalancer swap) or 2 + i percent
\* (CeloTransactionFixer swap and mint); the slippage strictly increases and
\* the minimum amounts put into the transaction never increase from one
\* attempt to the next.
C5_SlippageEscalates ==
    \A k \in 1..Len(rLog) :
        /\ rLog[k].attempt = k - 1
        /\ rLog[k].slippage =
              (IF rKind = "rebalancer_swap" THEN 4 + 2 * (k - 1) ELSE 2 + (k - 1))
        /\ k > 1 =>
              /\ rLog[k].slippage > rLog[k - 1].slippage
              /\ rLog[k].minOut0 <= rLog[k - 1].minOut0
              /\ rLog[k].minOut1 <= rLog[k - 1].minOut1

C5_Witness ==
    /\ rPhase = "returned"
    /\ rKind = "rebalancer_swap"
    /\ Len(rLog) = 3
    /\ rLog[1].slippage = 4 /\ rLog[2].slippage = 6 /\ rLog[3].slippage = 8
    /\ rLog[1].minOut0 > rLog[2].minOut0 /\ rLog[2].minOut0 > rLog[3].minOut0

-----------------------------------------------------------------------------
(* Claims about the plan orchestrator (PlanSpec) *)

\* The plan as execute_rebalance_plan walks it
SortedPlan == SortByPriority(plan)

FailedAt(k) == k \in 1..Len(execLog) /\ ~execLog[k].ok

\* C2: when execute_rebalance_plan runs a plan and a priority-1 action fails,
\* that action is the last one executed and the execution returns False.
C2_PriorityOneFailureAborts ==
    pPhase = "executed" =>
        \A k \in 1..Len(execLog) :
            (FailedAt(k) /\ execLog[k].priority = 1) =>
                /\ k = Len(execLog)
                /\ execResult = "false"

\* A plan of three priority-1 actions whose first action failed
C2_Witness ==
    /\ pPhase = "executed"
    /\ Len(plan) = 3
    /\ Len(execLog) = 1
    /\ execLog[1].priority = 1
    /\ ~execLog[1].ok
    /\ execResult = "false"

\* C6: every blockchain-mutating plan action the orchestrator executes
\* (close_position and create_position as well as the swap of auto_balance)
\* goes through the bounded retry: when its first transaction attempt fails
\* and the action is reported failed, MAX_RETRIES attempts were made.
C6_EveryActionRetried ==
    pPhase = "executed" =>
        \A k \in 1..Len(execLog) :
            (FailedAt(k) /\ execLog[k].attempts >= 1) =>
                execLog[k].attempts = MAX_RETRIES

\* C7: when a priority-2 or priority-3 action fails, every remaining action
\* of the plan is still attempted, in the plan's order.
C7_LowPriorityFailureContinues ==
    pPhase = "executed" =>
        \A k \in 1..Len(execLog) :
            (FailedAt(k) /\ execLog[k].priority \in {2, 3}) =>
                /\ Len(execLog) = Len(SortedPlan)
                /\ \A j \in (k + 1)..Len(SortedPlan) :
                       execLog[j].type = SortedPlan[j].type

\* A MEDIUM or LOW plan whose auto_balance failed and whose create_position
\* was attempted after it
C7_Witness ==
    /\ pPhase = "executed"
    /\ Len(plan) >= 2
    /\ \E k \in 1..(Len(execLog) - 1) :
          /\ ~execLog[k].ok
          /\ execLog[k].priority \in {2, 3}
          /\ execLog[k].type = "auto_balance"
          /\ execLog[k + 1].type = "create_position"
          /\ execLog[k + 1].calls # << >>

\* The place of an action in a rebalance: close, then balance, then create
Stage(type) ==
    IF type = "close_position" THEN 1 ELSE IF type = "auto_balance" THEN 2 ELSE 3

\* C28: the actions are executed one after the other in non-decreasing
\* priority and in the order the planner listed them (every action of a plan
\* has the plan's priority): close_position before auto_balance before
\* create_position, each begun after the ones before it have returned.
C28_ExecutedInPlanOrder ==
    pPhase = "executed" =>
        /\ \A k \in 1..Len(plan) : plan[k].priority = Priority(pUrgency)
        /\ Len(execLog) <= Len(plan)
        /\ \A k \in 1..Len(execLog) :
               /\ execLog[k].type = plan[k].type
               /\ execLog[k].ok \in BOOLEAN
        /\ \A j \in 1..Len(execLog), k \in 1..Len(execLog) :
               j < k => /\ execLog[j].priority <= execLog[k].priority
                        /\ Stage(execLog[j].type) < Stage(execLog[k].type)

\* A plan of three actions, the position closed, the portfolio balanced with
\* a swap and the new position minted, in this order
C28_Witness ==
    /\ pPhase = "executed"
    /\ Len(execLog) = 3
    /\ execLog[1].type = "close_position" /\ execLog[1].calls # << >>
    /\ execLog[2].type = "auto_balance" /\ execLog[2].calls # << >>
    /\ execLog[3].type = "create_position" /\ execLog[3].calls # << >>

-----------------------------------------------------------------------------
(* Claims about the rebalance planner (PlanSpec) *)

Planned == pPhase \in {"planned", "executed"}

\* Pool lookup, price fetch and tick-range computation all succeeded
LookupsSucceeded ==
    /\ pLookup.poolOk
    /\ pLookup.price # << >>
    /\ CalculateTickRange(pLookup.price[1], pLookup.widthLog,
                          TickSpacingForFee(pFee)) # << >>

UrgencyPriority ==
    CASE pUrgency = "HIGH"   -> 1
      [] pUrgency = "MEDIUM" -> 2
      [] pUrgency = "LOW"    -> 3

\* ClosePosition when liquidity > 0, then AutoBalance
PlanPrefix ==
    (IF pLiquidity > 0
     THEN <<[type |-> "close_position", priority |-> UrgencyPriority, new_range |-> << >>]>>
     ELSE << >>)
    \o <<[type |-> "auto_balance", priority |-> UrgencyPriority, new_range |-> << >>]>>

\* C8: when the pool lookup, the price fetch and the tick-range computation
\* succeed, the plan is exactly close_position (iff liquidity > 0),
\* auto_balance, create_position with the computed (lower, upper) ticks, each
\* with priority 1, 2 or 3 for urgency HIGH, MEDIUM or LOW.
C8_CompletePlan ==
    (Planned /\ LookupsSucceeded) =>
        plan = PlanPrefix \o
               <<[type |-> "create_position", priority |-> UrgencyPriority,
                  new_range |-> CalculateTickRange(pLookup.price[1], pLookup.widthLog,
                                                   TickSpacingForFee(pFee))]>>

\* A LOW-urgency plan for a position with liquidity: three actions of priority 3
C8_Witness ==
    /\ Planned /\ LookupsSucceeded
    /\ pUrgency = "LOW" /\ pLiquidity > 0
    /\ Len(plan) = 3
    /\ plan[3].priority = 3
    /\ plan[3].new_range[1] < plan[3].new_range[2]

\* C9: when the pool lookup, the price fetch or the tick-range computation
\* fails, the plan is exactly the actions appended before the failure:
\* non-empty, and without create_position.
C9_PartialPlan ==
    (Planned /\ ~LookupsSucceeded) =>
        /\ plan = PlanPrefix
        /\ plan # << >>
        /\ \A k \in 1..Len(plan) : plan[k].type # "create_position"

\* The tick-range computation failed on a fetched price, for a position with
\* liquidity: the plan is close_position, auto_balance
C9_Witness ==
    /\ Planned
    /\ pLookup.poolOk /\ pLookup.price # << >> /\ pLookup.widthLog > 0
    /\ ~LookupsSucceeded
    /\ pLiquidity > 0
    /\ Len(plan) = 2

-----------------------------------------------------------------------------
(* Claims about the rebalance history (Spec) *)

SameFraction(a, b) ==
    IF a = << >> \/ b = << >> THEN a = b ELSE a[1] * b[2] = b[1] * a[2]

\* Entries i and j tell the same outcome: the calls returned the same value
\* and the entries agree in every field but the time they were written
SameOutcome(i, j) ==
    LET a == rebalance_history[i]
        b == rebalance_history[j]
    IN  /\ histPlan[i].returned = histPlan[j].returned
        /\ a.token_id = b.token_id
        /\ a.reason.text = b.reason.text
        /\ SameFraction(a.reason.ratio, b.reason.ratio)
        /\ a.urgency = b.urgency
        /\ SameFraction(a.health_score_before, b.health_score_before)
        /\ a.success = b.success
        /\ a.actions_count = b.actions_count

\* C29: the value execute_rebalance_plan returned is the success flag of the
\* history entry, and it is False exactly when an action of a priority-1
\* (HIGH) plan failed: the entry of a MEDIUM or LOW plan says success whether
\* its actions succeeded or not.
C29_FailureOnlyFromPriorityOne ==
    \A i \in 1..Len(rebalance_history) :
        /\ rebalance_history[i].success = histPlan[i].returned
        /\ ~rebalance_history[i].success <=>
               (Priority(rebalance_history[i].urgency) = 1 /\ ~histPlan[i].allSucceeded)

\* A MEDIUM plan with a failed action recorded as a success, and a HIGH plan
\* with a failed action recorded as a failure
C29_Witness ==
    /\ \E i \in 1..Len(rebalance_history) :
          /\ rebalance_history[i].urgency = "MEDIUM"
          /\ ~histPlan[i].allSucceeded
          /\ rebalance_history[i].success
    /\ \E i \in 1..Len(rebalance_history) :
          /\ rebalance_history[i].urgency = "HIGH"
          /\ ~histPlan[i].allSucceeded
          /\ ~rebalance_history[i].success

\* C10: the outcome returned and recorded for a plan without create_position
\* differs from the outcome of every complete plan whose actions all succeeded.
C10_PartialPlanDistinguishable ==
    \A i \in 1..Len(rebalance_history), j \in 1..Len(rebalance_history) :
        (~histPlan[i].complete /\ histPlan[j].complete /\ histPlan[j].allSucceeded)
            => ~SameOutcome(i, j)

=============================================================================
